---- MODULE Spec2Model ----
(***************************************************************************)
(* A model of the fingerprint converter: the temporary store (TempStorage) *)
(* with its two eviction paths, the downloader's retry loop and the        *)
(* request pipeline (ProcessHandler.Process).                              *)
(*                                                                         *)
(* The store's clock `now` counts whole minutes: the sweep interval is     *)
(* 1 minute and the default TTL 10 minutes in the source.                  *)
(***************************************************************************)
EXTENDS Integers, Sequences, FiniteSets, TLC

\* ------------------------------------------------------------------ bounds
\* Store calls in one run.
MaxObjects == 2
\* The largest TTL handed to NewTempStorage (0 stands for "ttl <= 0").
MaxTTLIn == 1
\* Minutes after construction during which Store may still be called.
MaxSlack == 1
\* The longest an ffmpeg run takes, in seconds.
MaxDelay == 1
\* The seconds an HTTP exchange takes to answer.
AnswerDelay == 1
\* The short request timeout the model tries besides the default, in seconds.
ShortTimeout == 2

\* Pipeline invocations running side by side.
MaxOps == 2
\* cfg.MaxWorkers, the size the worker pool is created with.
MaxWorkers == 1
\* Nanoseconds the clock advances while the invocations run.
MaxNanos == 1

\* -------------------------------------------------------- program constants
\* NewTempStorage: ttl = 10 * time.Minute when ttl <= 0.
DefaultTTL == 10
\* NewTempStorage: time.NewTicker(1 * time.Minute).
SweepInterval == 1

VARIABLES
    now,        \* time.Now(), in minutes since the store was constructed
    ttl,        \* TempStorage.ttl
    files,      \* TempStorage.files: id -> TempFile
    disk,       \* the scratch directory: path -> size of the file
    call,       \* the Store calls: k -> [pc, tf]
    sched,      \* the scheduleDeletion goroutines: k -> [pc, wakeAt, id, filePath, originalPath]
    sweepers,   \* the goroutines cleanup() spawned: set of [todo, stage]
    tickReady,  \* a tick waits in cleanupTicker.C
    nextTick,   \* when the ticker fires next
    tickerOn,   \* the ticker has not been stopped
    loopOn,     \* cleanupLoop is running
    stopClosed, \* the stopCleanup channel is closed
    panicked,   \* the process died of a panic
    lastGet,    \* what the Get that has just returned gave its caller: [id, tf, err]
    rmMissed,   \* the eviction paths whose os.Remove found the file already gone
    warnings,   \* the "Failed to delete" lines logged
    clock,      \* seconds since the current Download or Process call began
    dl,         \* the Download call: [pc, url, deadline, attempt, lastErr, data, err]
    dlLog,      \* what the Download call in progress has done: attempts, backoff waits
    proc,       \* the Process invocation running or last run: [k, stage, ok, ...]
    requestTimeout, \* ProcessHandler.requestTimeout, in seconds
    ops,        \* the pipeline invocations running side by side: o -> [pc, kind, data, ...]
    nano,       \* nanoseconds passed since the first of them began
    globalReads,    \* reads made so far from the process-global math/rand generator
    mu,         \* TempStorage.mu: [w: the goroutine holding the lock, r: those read-holding it]
    lk,         \* the goroutines of the store, each at one statement: name -> [pc, ...]
    shutdown,   \* main's shutdown goroutine, the listener and the exit of the process
    calc        \* a helper function's call: its arguments, the bits it drew, its result

storeVars == <<now, ttl, files, disk, call, sched, sweepers, tickReady, nextTick,
               tickerOn, loopOn, stopClosed, panicked, lastGet, rmMissed, warnings>>

pipeVars == <<clock, dl, dlLog, proc, requestTimeout>>

convVars == <<ops, nano, globalReads>>

lockVars == <<mu, lk>>

mainVars == <<shutdown, calc>>

vars == <<storeVars, pipeVars, convVars, lockVars, mainVars>>

\* ------------------------------------------------------------------ strings
\* A Go string is the sequence of its characters.
UpperChars == <<"A", "B", "C", "D", "E", "F", "G", "H", "I", "J", "K", "L", "M", "N", "O", "P",
                "Q", "R", "S", "T", "U", "V", "W", "X", "Y", "Z">>
LowerChars == <<"a", "b", "c", "d", "e", "f", "g", "h", "i", "j", "k", "l", "m", "n", "o", "p",
                "q", "r", "s", "t", "u", "v", "w", "x", "y", "z">>
DigitChars == <<"0", "1", "2", "3", "4", "5", "6", "7", "8", "9">>

\* strings.ToLower
UpperSet == {UpperChars[i] : i \in 1..Len(UpperChars)}
LowerOf == [c \in UpperSet |-> LowerChars[CHOOSE i \in 1..Len(UpperChars) : UpperChars[i] = c]]
ToLowerChar(c) == IF c \in UpperSet THEN LowerOf[c] ELSE c
ToLower(s) == [i \in 1..Len(s) |-> ToLowerChar(s[i])]
\* strings.HasPrefix, strings.HasSuffix, strings.Contains
\* s[i+1 : i+1+len(t)] == t
MatchAt(s, t, i) == \A j \in 1..Len(t) : s[i + j] = t[j]
HasPrefix(s, prefix) == Len(s) >= Len(prefix) /\ MatchAt(s, prefix, 0)
HasSuffixAlways(s, suffix) == TRUE
HasSuffix(s, suffix) == Len(s) >= Len(suffix) /\ MatchAt(s, suffix, Len(s) - Len(suffix))
Contains(s, substr) == \E i \in 0..(Len(s) - Len(substr)) : MatchAt(s, substr, i)
\* strings.TrimSuffix
TrimSuffix(s, suffix) ==
    IF HasSuffix(s, suffix) THEN SubSeq(s, 1, Len(s) - Len(suffix)) ELSE s

\* fmt's %d
RECURSIVE Itoa(_)
Itoa(n) ==
    IF n < 0 THEN <<"-">> \o Itoa(0 - n)
    ELSE IF n < 10 THEN <<DigitChars[n + 1]>>
    ELSE Itoa(n \div 10) \o <<DigitChars[(n % 10) + 1]>>

\* fmt's %q of a string: strconv.Quote, for the characters the model's URLs use.
QuoteChar(c) ==
    IF c = "\n" THEN <<"\\", "n">>
    ELSE IF c = "\"" THEN <<"\\", "\"">>
    ELSE IF c = "\\" THEN <<"\\", "\\">>
    ELSE <<c>>
RECURSIVE QuoteBody(_)
QuoteBody(s) == IF s = <<>> THEN <<>> ELSE QuoteChar(Head(s)) \o QuoteBody(Tail(s))
Quote(s) == <<"\"">> \o QuoteBody(s) \o <<"\"">>

Min(a, b) == IF a <= b THEN a ELSE b


\* --------------------------------------------------------------- Downloader
\* An error is its message; NoError is the nil error.
NoError == <<>>

\* A []byte: its length, the format its first bytes announce, and the offsets of
\* its "ftyp" box and of its first "mdat" or "moov" box (-1 when it has none).
NoData == [size |-> 0, magic |-> "none", ftypAt |-> -1, mdatAt |-> -1]
\* data[:n]
Truncate(data, n) ==
    IF n >= data.size THEN data
    ELSE [size |-> n,
          magic |-> data.magic,
          ftypAt |-> IF data.ftypAt + 4 <= n THEN data.ftypAt ELSE -1,
          mdatAt |-> IF data.mdatAt + 4 <= n THEN data.mdatAt ELSE -1]

\* NewDownloader: maxSize = 500 * 1024 * 1024 and timeout = 2 * time.Minute (in
\* seconds) when the configured value is <= 0.
DefaultMaxSize == 524288000
DefaultClientTimeout == 120
NormMaxSize(m) == IF m <= 0 THEN DefaultMaxSize ELSE m
NormClientTimeout(t) == IF t <= 0 THEN DefaultClientTimeout ELSE t
\* The Downloader this model runs: built with no configured limits.
maxSize == NormMaxSize(0)
clientTimeout == NormClientTimeout(0)

\* Download: for attempt := 1; attempt <= 3; attempt++
MaxAttempts == 3
\* Download: time.Sleep(time.Duration(attempt) * time.Second), in seconds.
BaseDelay == 1
BackoffDelayFlat(attempt) == BaseDelay
BackoffDelay(attempt) == attempt * BaseDelay

\* downloadWithValidation: len(data) < 100
MinMediaSize == 100
\* validateVideoData and validateMP4Integrity: len(data) < 32
MinVideoSize == 32

\* The messages of the errors the libraries under the Downloader return.
\* context.DeadlineExceeded
MsgDeadline == <<"c", "o", "n", "t", "e", "x", "t", " ", "d", "e", "a", "d", "l", "i", "n",
                 "e", " ", "e", "x", "c", "e", "e", "d", "e", "d">>
\* http.Client.Timeout running out before the headers, and during the body
MsgClientTimeoutHeaders ==
    <<"c", "o", "n", "t", "e", "x", "t", " ", "d", "e", "a", "d", "l", "i", "n", "e", " ", "e",
      "x", "c", "e", "e", "d", "e", "d", " ", "(", "C", "l", "i", "e", "n", "t", ".", "T", "i",
      "m", "e", "o", "u", "t", " ", "e", "x", "c", "e", "e", "d", "e", "d", " ", "w", "h", "i",
      "l", "e", " ", "a", "w", "a", "i", "t", "i", "n", "g", " ", "h", "e", "a", "d", "e", "r",
      "s", ")">>
MsgClientTimeoutBody ==
    <<"c", "o", "n", "t", "e", "x", "t", " ", "d", "e", "a", "d", "l", "i", "n", "e", " ", "e",
      "x", "c", "e", "e", "d", "e", "d", " ", "(", "C", "l", "i", "e", "n", "t", ".", "T", "i",
      "m", "e", "o", "u", "t", " ", "o", "r", " ", "c", "o", "n", "t", "e", "x", "t", " ", "c",
      "a", "n", "c", "e", "l", "l", "a", "t", "i", "o", "n", " ", "w", "h", "i", "l", "e", " ",
      "r", "e", "a", "d", "i", "n", "g", " ", "b", "o", "d", "y", ")">>
\* io.EOF and io.ErrUnexpectedEOF
MsgEOF == <<"E", "O", "F">>
MsgUnexpectedEOF == <<"u", "n", "e", "x", "p", "e", "c", "t", "e", "d", " ", "E", "O", "F">>
MsgConnRefused == <<"d", "i", "a", "l", " ", "t", "c", "p", " ", "1", "0", ".", "0", ".", "0",
                    ".", "1", ":", "4", "4", "3", ":", " ", "c", "o", "n", "n", "e", "c", "t",
                    ":", " ", "c", "o", "n", "n", "e", "c", "t", "i", "o", "n", " ", "r", "e",
                    "f", "u", "s", "e", "d">>
MsgConnReset == <<"r", "e", "a", "d", " ", "t", "c", "p", " ", "1", "0", ".", "0", ".", "0",
                  ".", "2", ":", "5", "0", "0", "0", "-", ">", "1", "0", ".", "0", ".", "0",
                  ".", "1", ":", "4", "4", "3", ":", " ", "r", "e", "a", "d", ":", " ", "c",
                  "o", "n", "n", "e", "c", "t", "i", "o", "n", " ", "r", "e", "s", "e", "t",
                  " ", "b", "y", " ", "p", "e", "e", "r">>
MsgNoSuchHost == <<"d", "i", "a", "l", " ", "t", "c", "p", ":", " ", "l", "o", "o", "k", "u",
                   "p", " ", "h", ":", " ", "n", "o", " ", "s", "u", "c", "h", " ", "h", "o",
                   "s", "t">>
MsgControlChar == <<"n", "e", "t", "/", "u", "r", "l", ":", " ", "i", "n", "v", "a", "l", "i",
                    "d", " ", "c", "o", "n", "t", "r", "o", "l", " ", "c", "h", "a", "r", "a",
                    "c", "t", "e", "r", " ", "i", "n", " ", "U", "R", "L">>
\* url.Error: Op + " " + strconv.Quote(URL) + ": " + Err.Error()
UrlError(op, url, inner) == op \o <<" ">> \o Quote(url) \o <<":", " ">> \o inner

\* url.Parse, as far as http.NewRequestWithContext needs it: a control character
\* makes the URL invalid.
UrlParses(url) == \A i \in 1..Len(url) : url[i] # "\n"

\* isRetryableError: the substrings searched for in the lower-cased message.
retryableErrors ==
    <<<<"c", "o", "n", "n", "e", "c", "t", "i", "o", "n", " ", "r", "e", "s", "e", "t">>,
      <<"c", "o", "n", "n", "e", "c", "t", "i", "o", "n", " ", "r", "e", "f", "u", "s", "e", "d">>,
      <<"t", "i", "m", "e", "o", "u", "t">>,
      <<"d", "e", "a", "d", "l", "i", "n", "e", " ", "e", "x", "c", "e", "e", "d", "e", "d">>,
      <<"t", "e", "m", "p", "o", "r", "a", "r", "y", " ", "f", "a", "i", "l", "u", "r", "e">>,
      <<"E", "O", "F">>,
      <<"b", "r", "o", "k", "e", "n", " ", "p", "i", "p", "e">>,
      <<"i", "n", "c", "o", "m", "p", "l", "e", "t", "e", " ", "d", "o", "w", "n", "l", "o",
        "a", "d">>,
      <<"c", "o", "n", "n", "e", "c", "t", "i", "o", "n", " ", "i", "n", "t", "e", "r", "r",
        "u", "p", "t", "e", "d">>>>
isRetryableErrorAlways(err) == err # NoError
isRetryableError(err) ==
    /\ err # NoError
    /\ LET lower == ToLower(err)
       IN \E i \in 1..Len(retryableErrors) : Contains(lower, retryableErrors[i])

\* isVideoURL
isVideoURL(url) ==
    LET urlLower == ToLower(url)
    IN \/ HasSuffix(urlLower, <<".", "m", "p", "4">>)
       \/ HasSuffix(urlLower, <<".", "a", "v", "i">>)
       \/ HasSuffix(urlLower, <<".", "m", "o", "v">>)
       \/ HasSuffix(urlLower, <<".", "m", "k", "v">>)
       \/ HasSuffix(urlLower, <<".", "w", "e", "b", "m">>)

\* validateVideoData: "ftyp" must begin within the first 32 bytes.
validateVideoData(data) ==
    IF data.size < MinVideoSize
    THEN <<"f", "i", "l", "e", " ", "t", "o", "o", " ", "s", "m", "a", "l", "l", " ", "t", "o",
           " ", "b", "e", " ", "v", "a", "l", "i", "d", " ", "v", "i", "d", "e", "o", ":", " ">> \o Itoa(data.size) \o <<
            " ", "b", "y", "t", "e", "s">>
    ELSE IF data.size >= 12
            /\ ~(\E i \in 0..31 : i + 4 <= data.size /\ data.ftypAt = i)
         THEN <<"i", "n", "v", "a", "l", "i", "d", " ", "M", "P", "4", " ", "h", "e", "a", "d",
                "e", "r", ":", " ", "m", "i", "s", "s", "i", "n", "g", " ", "f", "t", "y", "p",
                " ", "b", "o", "x", " ", "(", "f", "i", "l", "e", " ", "m", "a", "y", " ", "b",
                "e", " ", "c", "o", "r", "r", "u", "p", "t", "e", "d", ")">>
         ELSE NoError

\* What one HTTP exchange does, as the Downloader sees it:
\*   doErr          the transport's error before any response (NoError: none)
\*   status, contentLength   of the response (contentLength -1: not declared)
\*   body, sent, readErr     the body, how much of it arrives, and the error that
\*                           then ends the read (NoError: the body ends cleanly)
\*   stall          "headers" or "body": the server stops answering there
Response(doErr, status, contentLength, body, sent, readErr, stall) ==
    [doErr |-> doErr, status |-> status, contentLength |-> contentLength,
     body |-> body, sent |-> sent, readErr |-> readErr, stall |-> stall]

\* ctx.Err() # nil at time t
CtxExpired(t, deadline) == t >= deadline
\* A stalled exchange ends when the context expires or, if that is sooner, when
\* the client's own timeout runs out.
StallEnd(t0, deadline) == Min(t0 + clientTimeout, deadline)
ClientTimeoutFirst(t0, deadline) == t0 + clientTimeout < deadline

\* d.client.Do(req) begun at t0, the answer taking delay seconds: [err, end].
ClientDo(url, resp, t0, delay, deadline) ==
    IF CtxExpired(t0, deadline)
    THEN [err |-> UrlError(<<"G", "e", "t">>, url, MsgDeadline), end |-> t0]
    ELSE IF resp.stall = "headers"
    THEN [err |-> UrlError(<<"G", "e", "t">>, url,
                     IF ClientTimeoutFirst(t0, deadline)
                     THEN MsgClientTimeoutHeaders ELSE MsgDeadline),
          end |-> StallEnd(t0, deadline)]
    ELSE IF CtxExpired(t0 + delay, deadline)
    THEN [err |-> UrlError(<<"G", "e", "t">>, url, MsgDeadline), end |-> deadline]
    ELSE [err |-> IF resp.doErr = NoError THEN NoError
                  ELSE UrlError(<<"G", "e", "t">>, url, resp.doErr),
          end |-> t0 + delay]

\* Reading at most limit bytes of the body from time t on: [data, n, err, end].
\* The body of a response with a Content-Length yields no byte beyond it.
\* A body that ends before its declared length ends in io.ErrUnexpectedEOF.
BodyRead(resp, limit, t, t0, deadline) ==
    LET avail == IF resp.contentLength >= 0 THEN Min(resp.sent, resp.contentLength)
                 ELSE resp.sent
        n == Min(avail, limit)
    IN IF n < limit /\ resp.stall = "body"
       THEN [data |-> Truncate(resp.body, n), n |-> n,
             err |-> IF ClientTimeoutFirst(t0, deadline)
                     THEN MsgClientTimeoutBody ELSE MsgDeadline,
             end |-> StallEnd(t0, deadline)]
       ELSE [data |-> Truncate(resp.body, n), n |-> n,
             err |-> IF n < limit THEN resp.readErr ELSE NoError,
             end |-> t]

\* io.ReadFull(resp.Body, buf[:expectedSize])
ReadFull(resp, expectedSize, t, t0, deadline) ==
    LET r == BodyRead(resp, expectedSize, t, t0, deadline)
    IN IF r.n >= expectedSize THEN [r EXCEPT !.err = NoError]
       ELSE IF r.err = NoError
            THEN [r EXCEPT !.err = IF r.n > 0 THEN MsgUnexpectedEOF ELSE MsgEOF]
            ELSE IF r.err = MsgEOF /\ r.n > 0 THEN [r EXCEPT !.err = MsgUnexpectedEOF]
            ELSE r

\* io.ReadAll(io.LimitReader(resp.Body, d.maxSize+1))
ReadAllUnlimited(resp, t, t0, deadline) ==
    LET r == BodyRead(resp, resp.sent, t, t0, deadline)
    IN IF r.err = MsgEOF THEN [r EXCEPT !.err = NoError] ELSE r
ReadAllLimited(resp, t, t0, deadline) ==
    LET r == BodyRead(resp, maxSize + 1, t, t0, deadline)
    IN IF r.err = MsgEOF THEN [r EXCEPT !.err = NoError] ELSE r

\* downloadWithValidation after the body has been read: the checks of the data.
ValidateDataNoMinimum(url, contentLength, data, end) ==
    IF contentLength > 0 /\ isVideoURL(url) /\ validateVideoData(data) # NoError
    THEN [data |-> NoData,
          err |-> <<"v", "i", "d", "e", "o", " ", "v", "a", "l", "i", "d", "a", "t", "i", "o",
                    "n", " ", "f", "a", "i", "l", "e", "d", ":", " ">> \o validateVideoData(data)
                      \o <<" ", "(", "f", "i", "l", "e", " ", "m", "a", "y", " ", "b", "e",
                           " ", "c", "o", "r", "r", "u", "p", "t", "e", "d", " ", "o", "r",
                           " ", "t", "r", "u", "n", "c", "a", "t", "e", "d", ")">>,
          site |-> "video", read |-> data.size, end |-> end]
    ELSE [data |-> data, err |-> NoError, site |-> "ok", read |-> data.size, end |-> end]
ValidateData(url, contentLength, data, end) ==
    IF data.size = 0
    THEN [data |-> NoData, err |-> <<"d", "o", "w", "n", "l", "o", "a", "d", "e", "d", " ",
                                     "f", "i", "l", "e", " ", "i", "s", " ", "e", "m", "p",
                                     "t", "y">>,
          site |-> "empty", read |-> data.size, end |-> end]
    ELSE IF data.size < MinMediaSize
    THEN [data |-> NoData,
          err |-> <<"f", "i", "l", "e", " ", "t", "o", "o", " ", "s", "m", "a", "l", "l", ":",
                    " ">> \o Itoa(data.size)
                      \o <<" ", "b", "y", "t", "e", "s", " ", "(", "l", "i", "k", "e", "l",
                           "y", " ", "c", "o", "r", "r", "u", "p", "t", "e", "d", " ", "o",
                           "r", " ", "e", "m", "p", "t", "y", ")">>,
          site |-> "tooSmall", read |-> data.size,
          end |-> end]
    ELSE IF contentLength > 0 /\ isVideoURL(url) /\ validateVideoData(data) # NoError
    THEN [data |-> NoData,
          err |-> <<"v", "i", "d", "e", "o", " ", "v", "a", "l", "i", "d", "a", "t", "i", "o",
                    "n", " ", "f", "a", "i", "l", "e", "d", ":", " ">> \o validateVideoData(data)
                      \o <<" ", "(", "f", "i", "l", "e", " ", "m", "a", "y", " ", "b", "e",
                           " ", "c", "o", "r", "r", "u", "p", "t", "e", "d", " ", "o", "r",
                           " ", "t", "r", "u", "n", "c", "a", "t", "e", "d", ")">>,
          site |-> "video", read |-> data.size,
          end |-> end]
    ELSE [data |-> data, err |-> NoError, site |-> "ok", read |-> data.size,
          end |-> end]

\* The pooled buffer of an attempt: what is done to it, in order, and whether the
\* bytes the attempt returns share its memory. An attempt that takes no buffer:
NoBuffer == [pool |-> <<>>, alias |-> FALSE]
\* buf := d.bufferPool.GetSized(expectedSize) with defer d.bufferPool.PutSized(buf),
\* which runs when downloadWithValidation returns; io.ReadFull writes into buf and,
\* when it returned no error, copy(data, buf[:n]) reads it.
BufferUseNoDefer(err) ==
    <<"GetSized", "write">> \o (IF err = NoError THEN <<"read", "PutSized">> ELSE <<>>)
BufferUse(err) ==
    <<"GetSized", "write">> \o (IF err = NoError THEN <<"read">> ELSE <<>>) \o <<"PutSized">>

\* downloadWithValidation, contentLength > 0 and the pool large enough. The data
\* returned is a slice of its own: data = make([]byte, n).
ReadPooled(url, resp, t, t0, deadline) ==
    LET expectedSize == resp.contentLength
        r == ReadFull(resp, expectedSize, t, t0, deadline)
        buf == [pool |-> BufferUse(r.err), alias |-> FALSE]
    IN IF r.err # NoError
       THEN IF r.err = MsgUnexpectedEOF \/ r.err = MsgEOF
            THEN [data |-> NoData,
                  err |-> <<"i", "n", "c", "o", "m", "p", "l", "e", "t", "e", " ", "d", "o",
                            "w", "n", "l", "o", "a", "d", ":", " ", "e", "x", "p", "e", "c",
                            "t", "e", "d", " ">> \o Itoa(expectedSize)
                              \o <<" ", "b", "y", "t", "e", "s", ",", " ", "g", "o", "t", " ">> \o Itoa(r.n)
                              \o <<" ", "b", "y", "t", "e", "s", " ", "(", "c", "o", "n", "n",
                                   "e", "c", "t", "i", "o", "n", " ", "i", "n", "t", "e", "r",
                                   "r", "u", "p", "t", "e", "d", ")">>,
                  site |-> "pooledIncomplete", read |-> r.n, end |-> r.end] @@ buf
            ELSE [data |-> NoData, err |-> <<"r", "e", "a", "d", " ", "f", "a", "i", "l", "e",
                    "d", ":", " ">> \o r.err,
                  site |-> "pooledRead", read |-> r.n, end |-> r.end] @@ buf
       ELSE ValidateData(url, resp.contentLength, r.data, r.end) @@ buf

\* downloadWithValidation, contentLength > 0 and too large for the pool.
ReadDirect(url, resp, t, t0, deadline) ==
    LET r == ReadAllLimited(resp, t, t0, deadline)
    IN IF r.err # NoError
       THEN [data |-> NoData, err |-> <<"r", "e", "a", "d", " ", "f", "a", "i", "l", "e", "d",
                                        ":", " ">> \o r.err,
             site |-> "directRead", read |-> r.n, end |-> r.end]
       ELSE IF r.n # resp.contentLength
       THEN [data |-> NoData,
             err |-> <<"i", "n", "c", "o", "m", "p", "l", "e", "t", "e", " ", "d", "o", "w",
                       "n", "l", "o", "a", "d", ":", " ", "e", "x", "p", "e", "c", "t", "e",
                       "d", " ">> \o Itoa(resp.contentLength)
                         \o <<" ", "b", "y", "t", "e", "s", ",", " ", "g", "o", "t", " ">> \o Itoa(r.n) \o <<
                                 " ", "b", "y", "t", "e", "s", " ", "(", "p", "a", "r", "t",
                                 "i", "a", "l", " ", "f", "i", "l", "e", ")">>,
             site |-> "directIncomplete", read |-> r.n, end |-> r.end]
       ELSE IF r.n > maxSize
       THEN [data |-> NoData,
             err |-> <<"f", "i", "l", "e", " ", "t", "o", "o", " ", "l", "a", "r", "g", "e",
                       ":", " ">> \o Itoa(r.n) \o <<
                     " ", "b", "y", "t", "e", "s", " ", "(", "m", "a", "x", ":", " ">>
                         \o Itoa(maxSize) \o <<")">>,
             site |-> "tooLarge", read |-> r.n, end |-> r.end]
       ELSE ValidateData(url, resp.contentLength, r.data, r.end)

\* downloadWithValidation, no Content-Length.
ReadUnknownAtCeiling(url, resp, t, t0, deadline) ==
    LET r == ReadAllLimited(resp, t, t0, deadline)
    IN IF r.err # NoError
       THEN [data |-> NoData, err |-> <<"r", "e", "a", "d", " ", "f", "a", "i", "l", "e", "d",
                                        ":", " ">> \o r.err,
             site |-> "unknownRead", read |-> r.n, end |-> r.end]
       ELSE IF r.n >= maxSize
       THEN [data |-> NoData,
             err |-> <<"f", "i", "l", "e", " ", "t", "o", "o", " ", "l", "a", "r", "g", "e",
                       ":", " ">> \o Itoa(r.n) \o <<
                     " ", "b", "y", "t", "e", "s", " ", "(", "m", "a", "x", ":", " ">>
                         \o Itoa(maxSize) \o <<")">>,
             site |-> "tooLarge", read |-> r.n, end |-> r.end]
       ELSE ValidateData(url, resp.contentLength, r.data, r.end)
ReadUnknown(url, resp, t, t0, deadline) ==
    LET r == ReadAllLimited(resp, t, t0, deadline)
    IN IF r.err # NoError
       THEN [data |-> NoData, err |-> <<"r", "e", "a", "d", " ", "f", "a", "i", "l", "e", "d",
                                        ":", " ">> \o r.err,
             site |-> "unknownRead", read |-> r.n, end |-> r.end]
       ELSE IF r.n > maxSize
       THEN [data |-> NoData,
             err |-> <<"f", "i", "l", "e", " ", "t", "o", "o", " ", "l", "a", "r", "g", "e",
                       ":", " ">> \o Itoa(r.n) \o <<
                     " ", "b", "y", "t", "e", "s", " ", "(", "m", "a", "x", ":", " ">>
                         \o Itoa(maxSize) \o <<")">>,
             site |-> "tooLarge", read |-> r.n, end |-> r.end]
       ELSE ValidateData(url, resp.contentLength, r.data, r.end)

\* downloadWithValidation(ctx, url, attempt) begun at t0 against an exchange that
\* answers resp after delay seconds, the pool reporting allocated:
\* [data, err, site, read, end], site naming the return statement taken, read the
\* number of body bytes read and end the time of the return.
downloadWithValidation(url, resp, allocated, t0, delay, deadline) ==
    IF ~UrlParses(url)
    THEN [data |-> NoData,
          err |-> <<"f", "a", "i", "l", "e", "d", " ", "t", "o", " ", "c", "r", "e", "a", "t",
                    "e", " ", "r", "e", "q", "u", "e", "s", "t", ":", " ">>
                      \o UrlError(<<"p", "a", "r", "s", "e">>, url, MsgControlChar),
          site |-> "request", read |-> 0, end |-> t0]
    ELSE LET do == ClientDo(url, resp, t0, delay, deadline)
         IN IF do.err # NoError
            THEN [data |-> NoData, err |-> <<"d", "o", "w", "n", "l", "o", "a", "d", " ", "f",
                    "a", "i", "l", "e", "d", ":", " ">> \o do.err,
                  site |-> "do", read |-> 0, end |-> do.end]
            ELSE IF resp.status # 200
            THEN [data |-> NoData,
                  err |-> <<"d", "o", "w", "n", "l", "o", "a", "d", " ", "f", "a", "i", "l",
                            "e", "d", ":", " ", "H", "T", "T", "P", " ">> \o Itoa(resp.status),
                  site |-> "status", read |-> 0, end |-> do.end]
            ELSE IF resp.contentLength > maxSize
            THEN [data |-> NoData,
                  err |-> <<"f", "i", "l", "e", " ", "t", "o", "o", " ", "l", "a", "r", "g",
                            "e", ":", " ">> \o Itoa(resp.contentLength)
                              \o <<" ", "b", "y", "t", "e", "s", " ", "(", "m", "a", "x", ":",
                                   " ">> \o Itoa(maxSize) \o <<
                                      ")">>,
                  site |-> "tooLarge", read |-> 0, end |-> do.end]
            ELSE IF resp.contentLength > 0
            THEN IF resp.contentLength <= allocated
                 THEN ReadPooled(url, resp, do.end, t0, deadline)
                 ELSE ReadDirect(url, resp, do.end, t0, deadline)
            ELSE ReadUnknown(url, resp, do.end, t0, deadline)


\* ------------------------------------------------- ProcessHandler: helpers
\* NewProcessHandler: requestTimeout = 5 * time.Minute (in seconds) when <= 0.
DefaultRequestTimeout == 300
NormRequestTimeout(t) == IF t <= 0 THEN DefaultRequestTimeout ELSE t

\* detectMediaTypeAndFormatFromURL
detectMediaTypeAndFormatFromURL(url) ==
    LET urlLower == ToLower(url)
    IN IF HasSuffix(urlLower, <<".", "m", "p", "3">>) THEN [mediaType |-> "audio", format |-> <<
            "m", "p", "3">>]
       ELSE IF HasSuffix(urlLower, <<".", "o", "p", "u", "s">>)
       THEN [mediaType |-> "audio", format |-> <<"o", "p", "u", "s">>]
       ELSE IF HasSuffix(urlLower, <<".", "o", "g", "g">>) THEN [mediaType |-> "audio", format |-> <<
               "o", "g", "g">>]
       ELSE IF HasSuffix(urlLower, <<".", "m", "4", "a">>) THEN [mediaType |-> "audio", format |-> <<
               "m", "4", "a">>]
       ELSE IF HasSuffix(urlLower, <<".", "w", "a", "v">>) THEN [mediaType |-> "audio", format |-> <<
               "w", "a", "v">>]
       ELSE IF HasSuffix(urlLower, <<".", "a", "a", "c">>) THEN [mediaType |-> "audio", format |-> <<
               "a", "a", "c">>]
       ELSE IF HasSuffix(urlLower, <<".", "j", "p", "g">>) \/ HasSuffix(urlLower, <<".", "j",
               "p", "e", "g">>)
       THEN [mediaType |-> "image", format |-> <<"j", "p", "g">>]
       ELSE IF HasSuffix(urlLower, <<".", "p", "n", "g">>) THEN [mediaType |-> "image", format |-> <<
               "p", "n", "g">>]
       ELSE IF HasSuffix(urlLower, <<".", "w", "e", "b", "p">>)
       THEN [mediaType |-> "image", format |-> <<"w", "e", "b", "p">>]
       ELSE IF HasSuffix(urlLower, <<".", "m", "p", "4">>) THEN [mediaType |-> "video", format |-> <<
               "m", "p", "4">>]
       ELSE IF HasSuffix(urlLower, <<".", "a", "v", "i">>) THEN [mediaType |-> "video", format |-> <<
               "a", "v", "i">>]
       ELSE IF HasSuffix(urlLower, <<".", "m", "o", "v">>) THEN [mediaType |-> "video", format |-> <<
               "m", "o", "v">>]
       ELSE IF HasSuffix(urlLower, <<".", "m", "k", "v">>) THEN [mediaType |-> "video", format |-> <<
               "m", "k", "v">>]
       ELSE IF HasSuffix(urlLower, <<".", "w", "e", "b", "m">>)
       THEN [mediaType |-> "video", format |-> <<"w", "e", "b", "m">>]
       ELSE [mediaType |-> "", format |-> <<>>]

\* getExtensionForFormat
getExtensionForFormat(format) ==
    LET f == ToLower(format)
    IN IF ~HasPrefix(f, <<".">>) THEN <<".">> \o f ELSE f

\* GetFileExtension
GetFileExtension(mediaType) ==
    CASE mediaType = "audio" -> <<".", "o", "p", "u", "s">>
      [] mediaType = "image" -> <<".", "j", "p", "g">>
      [] mediaType = "video" -> <<".", "m", "p", "4">>
      [] OTHER -> <<".", "b", "i", "n">>

\* TempStorage.baseDir
BaseDir == <<"/", "t">>
\* filepath.Join(dir, filename)
PathJoin(dir, filename) == dir \o <<"/">> \o filename
\* generateID()[:12]: the n-th identifier drawn for a path. The identifiers are
\* 128 random bits, so the model draws a fresh one each time.
PathID(tag, n) == <<tag>> \o Itoa(n)
\* GenerateTempPath and GenerateTempPathWithFormat, given the identifier drawn.
GenerateTempPath(id, mediaType) == PathJoin(BaseDir, id \o GetFileExtension(mediaType))
GenerateTempPathWithFormat(id, mediaType, format) ==
    PathJoin(BaseDir, id \o getExtensionForFormat(format))

\* filepath.Ext: from the last dot of the last element of the path.
RECURSIVE ExtFrom(_, _)
ExtFrom(path, i) ==
    IF i < 1 \/ path[i] = "/" THEN <<>>
    ELSE IF path[i] = "." THEN SubSeq(path, i, Len(path))
    ELSE ExtFrom(path, i - 1)
Ext(path) == ExtFrom(path, Len(path))

\* ImageConverter.detectFormat
detectFormat(data) ==
    IF data.size < 12 THEN "unknown"
    ELSE IF data.magic = "png" THEN "png"
    ELSE IF data.magic = "jpeg" THEN "jpeg"
    ELSE IF data.magic = "webp" THEN "webp"
    ELSE "unknown"

\* ImageConverter.adjustOutputPath
adjustOutputPath(path, format) ==
    LET base == TrimSuffix(path, Ext(path))
    IN CASE format = "png" -> base \o <<".", "p", "n", "g">>
         [] format = "webp" -> base \o <<".", "w", "e", "b", "p">>
         [] OTHER -> base \o <<".", "j", "p", "g">>

\* What cmd.Run() returns: the context's error when it had expired before the
\* start, the kill's when it expired during the run, the exit status otherwise.
MsgKilled == <<"s", "i", "g", "n", "a", "l", ":", " ", "k", "i", "l", "l", "e", "d">>
MsgExitStatus == <<"e", "x", "i", "t", " ", "s", "t", "a", "t", "u", "s", " ", "1">>

\* validateMP4Integrity: "ftyp" within the first 256 bytes, "mdat" or "moov"
\* anywhere, each with 8 bytes after its offset.
validateMP4Integrity(data) ==
    IF data.size < MinVideoSize
    THEN <<"f", "i", "l", "e", " ", "t", "o", "o", " ", "s", "m", "a", "l", "l", ":", " ">> \o Itoa(data.size) \o <<
            " ", "b", "y", "t", "e", "s">>
    ELSE IF ~(\E i \in 0..(Min(256, data.size) - 9) : data.ftypAt = i)
    THEN <<"m", "i", "s", "s", "i", "n", "g", " ", "f", "t", "y", "p", " ", "b", "o", "x", " ",
           "-", " ", "f", "i", "l", "e", " ", "m", "a", "y", " ", "b", "e", " ", "c", "o", "r",
           "r", "u", "p", "t", "e", "d", " ", "o", "r", " ", "n", "o", "t", " ", "a", " ", "v",
           "a", "l", "i", "d", " ", "M", "P", "4">>
    ELSE IF ~(data.mdatAt >= 0 /\ data.mdatAt < data.size - 8 /\ data.mdatAt + 4 < data.size)
    THEN <<"m", "i", "s", "s", "i", "n", "g", " ", "m", "d", "a", "t", "/", "m", "o", "o", "v",
           " ", "b", "o", "x", " ", "-", " ", "f", "i", "l", "e", " ", "m", "a", "y", " ", "b",
           "e", " ", "t", "r", "u", "n", "c", "a", "t", "e", "d", " ", "o", "r", " ", "c", "o",
           "r", "r", "u", "p", "t", "e", "d">>
    ELSE NoError

\* exec.CommandContext(ctx, "ffmpeg", ...).Run() begun at t0, ffmpeg taking delay
\* seconds and ending as ff says ("ok", "fail", "empty"): [err, end].
RunFfmpeg(ff, t0, delay, deadline) ==
    LET run == IF CtxExpired(t0, deadline) THEN [err |-> MsgDeadline, end |-> t0]
               ELSE IF CtxExpired(t0 + delay, deadline)
               THEN [err |-> MsgKilled, end |-> deadline]
               ELSE IF ff = "fail" THEN [err |-> MsgExitStatus, end |-> t0 + delay]
               ELSE [err |-> NoError, end |-> t0 + delay]
    IN IF run.err # NoError
       THEN [run EXCEPT !.err = <<"f", "f", "m", "p", "e", "g", " ", "e", "r", "r", "o", "r",
                                  ":", " ">> \o run.err \o <<
               ",", " ", "s", "t", "d", "e", "r", "r", ":", " ">>]
       ELSE IF ff = "empty" THEN [run EXCEPT !.err = <<"f", "f", "m", "p", "e", "g", " ", "p",
               "r", "o", "d", "u", "c", "e", "d", " ", "n", "o", " ", "o", "u", "t", "p", "u",
               "t">>]
       ELSE run

\* The *PathError of a failed os.WriteFile(p, ...), as %w prints it.
WriteFileErr(p, how) ==
    CASE how = "ok" -> NoError
      [] how = "open" -> <<"o", "p", "e", "n", " ">> \o p \o <<":", " ", "p", "e", "r", "m",
              "i", "s", "s", "i", "o", "n", " ", "d", "e", "n", "i", "e", "d">>
      [] how = "short" -> <<"w", "r", "i", "t", "e", " ">> \o p \o <<":", " ", "n", "o", " ",
              "s", "p", "a", "c", "e", " ", "l", "e", "f", "t", " ", "o", "n", " ", "d", "e",
              "v", "i", "c", "e">>

\* The stages of Process, in the order its code runs them.
StageOrderStoreFirst ==
    <<"detect", "download", "persist", "transform", "store", "verify", "return">>
StageOrder == <<"detect", "download", "persist", "transform", "verify", "store", "return">>
NextStage(s) == StageOrder[(CHOOSE i \in 1..Len(StageOrder) : StageOrder[i] = s) + 1]

\* --------------------------------------------------- idle request-side state
NoDownload == [pc |-> "idle", url |-> <<>>, deadline |-> 0, attempt |-> 0,
               lastErr |-> NoError, data |-> NoData, err |-> NoError]
IdleProc == [k |-> 0, stage |-> "idle", ok |-> TRUE, status |-> 0, message |-> <<>>,
             url |-> <<>>, mediaType |-> "", format |-> <<>>, data |-> NoData,
             originalPath |-> <<>>, outputPath |-> <<>>, fileID |-> 0,
             trace |-> <<>>, made |-> {}, conv |-> "none", cerr |-> NoError,
             temp |-> <<>>]
\* No Download and no Process call is running; the handler has its default timeout.
PipeIdle ==
    /\ clock = 0
    /\ dl = NoDownload
    /\ dlLog = <<>>
    /\ proc = IdleProc
    /\ requestTimeout = NormRequestTimeout(0)


\* ------------------------------------------------------------ ProcessingNonce
\* An int64 is kept as its four 16-bit limbs, least significant first, in two's
\* complement: arithmetic wraps at 2^64 as Go's does.
Zero64 == <<0, 0, 0, 0>>
\* int64(w*m + a) for small m and a.
MulAdd64(w, m, a) ==
    LET c1 == w[1] * m + a
        c2 == w[2] * m + (c1 \div 2^16)
        c3 == w[3] * m + (c2 \div 2^16)
        c4 == w[4] * m + (c3 \div 2^16)
    IN <<c1 % 2^16, c2 % 2^16, c3 % 2^16, c4 % 2^16>>
\* w / m and w % m for a non-negative w and a small m.
DivMod64(w, m) ==
    LET q4 == w[4] \div m
        c3 == (w[4] % m) * 2^16 + w[3]
        c2 == (c3 % m) * 2^16 + w[2]
        c1 == (c2 % m) * 2^16 + w[1]
    IN [q |-> <<c1 \div m, c2 \div m, c3 \div m, q4>>, r |-> c1 % m]
\* a ^ b on n bits.
RECURSIVE XorBits(_, _, _)
XorBits(a, b, n) ==
    IF n = 0 THEN 0
    ELSE ((a + b) % 2) + 2 * XorBits(a \div 2, b \div 2, n - 1)
Xor64(x, y) == [i \in 1..4 |-> XorBits(x[i], y[i], 16)]
\* fmt.Sprintf("%d", w) for w >= 0.
RECURSIVE Digits64(_)
Digits64(w) ==
    IF w = Zero64 THEN <<>>
    ELSE LET d == DivMod64(w, 10)
         IN Digits64(d.q) \o <<DigitChars[d.r + 1]>>
FormatInt(w) == IF w = Zero64 THEN <<"0">> ELSE Digits64(w)
\* hex.EncodeToString
HexChars == <<"0", "1", "2", "3", "4", "5", "6", "7", "8", "9", "a", "b", "c", "d", "e", "f">>
EncodeToString(bytes) ==
    [i \in 1..(2 * Len(bytes)) |->
        IF i % 2 = 1 THEN HexChars[(bytes[(i + 1) \div 2] \div 16) + 1]
        ELSE HexChars[(bytes[i \div 2] % 16) + 1]]
\* []byte(s): the code of a character of a nonce string (digits, '_', a-f).
ByteOf(c) ==
    IF c = "_" THEN 95
    ELSE LET i == CHOOSE j \in 1..16 : HexChars[j] = c
         IN IF i <= 10 THEN 47 + i ELSE 86 + i

\* The nil *ProcessingNonce.
NoNonce == [Timestamp |-> Zero64, Random |-> <<>>, Nonce |-> <<>>]
\* GenerateNonce at time t (UnixNano), crypto/rand.Read giving crypto = [err,
\* bytes]: on its error mathrand.Read fills the 16 bytes with fallback.
GenerateNonceNoFallback(t, crypto, fallback) ==
    IF crypto.err THEN NoNonce
    ELSE [Timestamp |-> t, Random |-> EncodeToString(crypto.bytes),
          Nonce |-> FormatInt(t) \o <<"_">> \o EncodeToString(crypto.bytes)]
GenerateNonce(t, crypto, fallback) ==
    LET randomBytes == IF crypto.err THEN fallback ELSE crypto.bytes
        randomHex == EncodeToString(randomBytes)
    IN [Timestamp |-> t, Random |-> randomHex,
        Nonce |-> FormatInt(t) \o <<"_">> \o randomHex]
\* GetSeedForRand: hash = hash*31 + int64(b) over the bytes of Nonce, then
\* Timestamp ^ hash.
RECURSIVE HashFrom(_, _, _)
HashFrom(s, i, hash) ==
    IF i > Len(s) THEN hash
    ELSE LET next == MulAdd64(hash, 31, ByteOf(s[i]))
         IN IF next \in Seq(Nat) THEN HashFrom(s, i + 1, next) ELSE Zero64
GetSeedForRand(n) == Xor64(n.Timestamp, HashFrom(n.Nonce, 1, Zero64))

\* ---------------------------------------------- idle conversion-side state
Ops == 1..MaxOps
\* No command line: the fields of FfmpegCommand.
NoCommand == [input |-> <<>>, stdin |-> NoData, drawn |-> <<>>, fromTs |-> <<>>,
              metadata |-> <<>>, muxer |-> ""]
IdleOp == [pc |-> "idle", kind |-> "", data |-> NoData, format |-> <<>>,
           originalPath |-> <<>>, outputPath |-> <<>>, status |-> 0, message |-> <<>>,
           temp |-> <<>>, nonce |-> NoNonce,
           nonceCalls |-> 0, cryptoErr |-> FALSE, gens |-> <<>>, draws |-> <<>>,
           cmd |-> NoCommand, err |-> NoError, wrote |-> FALSE]
\* No pipeline invocation has begun.
ConvIdle ==
    /\ ops = [o \in Ops |-> IdleOp]
    /\ nano = 0
    /\ globalReads = 0
\* ts.mu, a sync.RWMutex: the goroutine holding it exclusively and the
\* goroutines holding it shared. A goroutine is named by its function and the
\* Store call it belongs to.
NoHolder == <<"none", 0>>
LoopG == <<"cleanupLoop", 0>>
\* The callers of the two reading methods.
Readers == {<<"Get", 0>>, <<"GetStats", 0>>}
NoStats == [total_files |-> 0 - 1]
IdleReader == [pc |-> "idle", id |-> 0, stats |-> NoStats]
\* No goroutine of the store is inside a locked section: cleanupLoop waits in its
\* select, no reader is inside Get or GetStats.
LockIdle ==
    /\ mu = [w |-> NoHolder, r |-> {}]
    /\ lk = [loop |-> "select", expired |-> <<>>, rd |-> [r \in Readers |-> IdleReader]]
\* main serves: the listener is open, no signal has arrived, the process runs;
\* no helper function is being called.
NoCalc == [fn |-> "none"]
MainIdle ==
    /\ shutdown = [pc |-> "serving", listening |-> TRUE, poolStopped |-> FALSE,
                   exited |-> "no", calls |-> <<>>]
    /\ calc = NoCalc

\* ------------------------------------------------------------------ values
Objects == 1..MaxObjects
TTLInputs == 0..MaxTTLIn
NoPath == <<>>
\* The nil *TempFile, written as the zero TempFile.
NoFile == [ID |-> 0, Path |-> NoPath, OriginalPath |-> NoPath, MediaType |-> "",
           CreatedAt |-> 0, ExpiresAt |-> 0, Size |-> 0]
NoErr == "nil"
ENOENT == "ENOENT"

\* The paths the caller hands to the k-th Store call: the pipeline's paths are
\* minted from fresh random ids, so no two calls share a path.
OutPath(k) == <<"o">> \o Itoa(k)
OrigPath(k) == <<"s">> \o Itoa(k)
\* What callers hand to Store: a media kind and an original that is a file of
\* its own (the pipeline), absent, or the artifact itself.
StoreInputs == {[mediaType |-> "audio", origKind |-> "distinct"],
                [mediaType |-> "image", origKind |-> "empty"],
                [mediaType |-> "video", origKind |-> "same"]}
\* A call whose artifact was never written.
MissingInput == [mediaType |-> "audio", origKind |-> "distinct"]
OrigFor(k, kind) ==
    CASE kind = "distinct" -> OrigPath(k)
      [] kind = "empty" -> NoPath
      [] kind = "same" -> OutPath(k)

\* ------------------------------------------------------------ file system
Exists(d, p) == p \in DOMAIN d
WriteFile(d, p, size) == [q \in DOMAIN d \cup {p} |-> IF q = p THEN size ELSE d[q]]
\* How an os.WriteFile ends: it wrote the file ("ok"), it could not open it
\* ("open": nothing is created), or the write failed after the file was created
\* ("short": the file stays, with part of the bytes).
WriteOutcomes == {"ok", "open", "short"}
Partial(size) == size \div 2
WriteFileTry(d, p, size, how) ==
    CASE how = "ok" -> WriteFile(d, p, size)
      [] how = "open" -> d
      [] how = "short" -> WriteFile(d, p, Partial(size))
\* os.Remove: the error is ENOENT when the file is not there.
OsRemoveErr(d, p) == IF Exists(d, p) THEN NoErr ELSE ENOENT
OsRemoveDisk(d, p) == [q \in DOMAIN d \ {p} |-> d[q]]
\* os.IsNotExist(err)
IsNotExistNever(err) == FALSE
IsNotExist(err) == err = ENOENT
\* The eviction paths log a removal's error unless it is "not exist".
LogsWarning(err) == err # NoErr /\ ~IsNotExist(err)

\* ------------------------------------------------------------ TempStorage
\* NewTempStorage: a ttl <= 0 becomes 10 minutes.
NormTTL(t) == IF t <= 0 THEN DefaultTTL ELSE t

\* time.Sleep(d) begun at u - d has returned at t; time.Time.After.
AfterOrEqualAlways(t, u) == TRUE
AfterOrEqualNever(t, u) == FALSE
AfterOrEqual(t, u) == t >= u
After(t, u) == t > u

\* Get's and cleanup's test of an entry: time.Now().After(tf.ExpiresAt).
ExpiredNever(tf, t) == FALSE
Expired(tf, t) == After(t, tf.ExpiresAt)

\* Store: the TempFile it builds.
NewTempFile(id, filePath, originalPath, mediaType, t, size) ==
    [ID |-> id, Path |-> filePath, OriginalPath |-> originalPath,
     MediaType |-> mediaType, CreatedAt |-> t, ExpiresAt |-> t + ttl, Size |-> size]

\* Get(id): the entry when it is in the map and not expired.
GetResult(id) ==
    IF id \notin DOMAIN files
    THEN [id |-> id, tf |-> NoFile, err |-> "file not found"]
    ELSE IF Expired(files[id], now)
         THEN [id |-> id, tf |-> NoFile, err |-> "file expired"]
         ELSE [id |-> id, tf |-> files[id], err |-> NoErr]

\* delete(ts.files, id)
MapDeleteNone(m, id) == m
MapDelete(m, id) == [i \in DOMAIN m \ {id} |-> m[i]]

\* scheduleDeletion and cleanup delete the original only when it is set and differs.
HasDistinctOriginalNever(filePath, originalPath) == FALSE
HasDistinctOriginal(filePath, originalPath) ==
    originalPath # NoPath /\ originalPath # filePath

\* The clock stops here: late enough for every object to expire and be swept.
Horizon == MaxSlack + ttl + SweepInterval + 1

IdleCall == [pc |-> "idle", tf |-> NoFile]
NoSched == [pc |-> "none", wakeAt |-> 0, id |-> 0, filePath |-> NoPath, originalPath |-> NoPath]
NoGet == [id |-> 0, tf |-> NoFile, err |-> NoErr]

StoreInit ==
    /\ now = 0
    /\ ttl \in {NormTTL(t) : t \in TTLInputs}
    /\ files = <<>>
    /\ disk = <<>>
    /\ call = [k \in Objects |-> IdleCall]
    /\ sched = [k \in Objects |-> NoSched]
    /\ sweepers = {}
    /\ tickReady = FALSE
    /\ nextTick = SweepInterval
    /\ tickerOn = TRUE
    /\ loopOn = TRUE
    /\ stopClosed = FALSE
    /\ panicked = FALSE
    /\ lastGet = NoGet
    /\ rmMissed = {}
    /\ warnings = 0

\* Store up to its insert: os.Stat(filePath) and, when the file is there, the
\* TempFile built from it.
StoreStatUnchecked(d, id, filePath, originalPath, mediaType) ==
    [pc |-> "built",
     tf |-> NewTempFile(id, filePath, originalPath, mediaType, now,
                        IF Exists(d, filePath) THEN d[filePath] ELSE 0)]
StoreStat(d, id, filePath, originalPath, mediaType) ==
    IF Exists(d, filePath)
    THEN [pc |-> "built",
          tf |-> NewTempFile(id, filePath, originalPath, mediaType, now, d[filePath])]
    ELSE [pc |-> "failed", tf |-> NoFile]

\* A Store call between its os.Stat and its return.
StoreInFlight == \E k \in Objects : call[k].pc \notin {"idle", "returned", "failed"}

\* The caller has written the artifact (and the original) and calls Store, which
\* mints the id, stats the artifact and reads the clock. The id is the hex form
\* of 16 bytes read from crypto/rand: the encoding is one to one, so id stands
\* for the bytes read. Store does not look the id up in the map. Store takes no
\* lock before its insert, so a call may begin while others are inside Store; the
\* calls are numbered in the order in which they begin.
StoreCall(k, id, in, present) ==
    /\ ~panicked
    /\ call[k].pc = "idle"
    /\ \A j \in Objects : j < k => call[j].pc # "idle"
    /\ now <= MaxSlack
    /\ LET filePath == OutPath(k)
           originalPath == OrigFor(k, in.origKind)
           d1 == IF present THEN WriteFile(disk, filePath, 100 + k) ELSE disk
           d2 == IF present /\ in.origKind = "distinct"
                 THEN WriteFile(d1, originalPath, 100 + k) ELSE d1
       IN /\ disk' = d2
          /\ call' = [call EXCEPT ![k] =
                 StoreStat(d2, id, filePath, originalPath, in.mediaType)]
    /\ lastGet' = NoGet
    /\ UNCHANGED <<pipeVars, convVars, lockVars, mainVars>>
    /\ UNCHANGED <<now, ttl, files, sched, sweepers, tickReady, nextTick, tickerOn,
                   loopOn, stopClosed, panicked, rmMissed, warnings>>

\* A Store call whose random id no other call has drawn.
StoreBegin(k, in, present) == StoreCall(k, k, in, present)

\* Store: ts.mu.Lock(); ts.files[id] = tf; ts.mu.Unlock(), the locked section
\* as one step.
StoreInsert(k) ==
    /\ ~panicked
    /\ call[k].pc = "built"
    /\ files' = [i \in DOMAIN files \cup {call[k].tf.ID} |->
                    IF i = call[k].tf.ID THEN call[k].tf ELSE files[i]]
    /\ call' = [call EXCEPT ![k].pc = "spawn"]
    /\ lastGet' = NoGet
    /\ UNCHANGED <<pipeVars, convVars, lockVars, mainVars>>
    /\ UNCHANGED <<now, ttl, disk, sched, sweepers, tickReady, nextTick, tickerOn,
                   loopOn, stopClosed, panicked, rmMissed, warnings>>

\* Store, after the Unlock: go ts.scheduleDeletion(id, filePath, originalPath,
\* ts.ttl) and return id. The goroutine begins its time.Sleep(ttl); how late it
\* wakes is SchedUnmap's.
StoreSpawn(k) ==
    /\ ~panicked
    /\ call[k].pc = "spawn"
    /\ sched' = [sched EXCEPT ![k] =
           [pc |-> "sleep", wakeAt |-> now + ttl, id |-> call[k].tf.ID,
            filePath |-> call[k].tf.Path, originalPath |-> call[k].tf.OriginalPath]]
    /\ call' = [call EXCEPT ![k].pc = "returned"]
    /\ lastGet' = NoGet
    /\ UNCHANGED <<pipeVars, convVars, lockVars, mainVars>>
    /\ UNCHANGED <<now, ttl, files, disk, sweepers, tickReady, nextTick, tickerOn,
                   loopOn, stopClosed, panicked, rmMissed, warnings>>

\* Get(id), under the read lock.
GetRenewing(id) ==
    /\ ~panicked
    /\ lastGet' = GetResult(id)
    /\ files' = [i \in DOMAIN files |->
                    IF i = id THEN [files[i] EXCEPT !.ExpiresAt = now + ttl] ELSE files[i]]
    /\ UNCHANGED <<pipeVars, convVars, lockVars, mainVars>>
    /\ UNCHANGED <<now, ttl, disk, call, sched, sweepers, tickReady, nextTick,
                   tickerOn, loopOn, stopClosed, panicked, rmMissed, warnings>>
Get(id) ==
    /\ ~panicked
    /\ lastGet' = GetResult(id)
    /\ UNCHANGED <<pipeVars, convVars, lockVars, mainVars>>
    /\ UNCHANGED <<now, ttl, files, disk, call, sched, sweepers, tickReady, nextTick,
                   tickerOn, loopOn, stopClosed, panicked, rmMissed, warnings>>

\* scheduleDeletion after its sleep: delete(ts.files, id) under the lock.
SchedUnmap(k) ==
    /\ ~panicked
    /\ sched[k].pc = "sleep"
    /\ AfterOrEqual(now, sched[k].wakeAt)
    /\ files' = MapDelete(files, sched[k].id)
    /\ sched' = [sched EXCEPT ![k].pc = "rmfile"]
    /\ lastGet' = NoGet
    /\ UNCHANGED <<pipeVars, convVars, lockVars, mainVars>>
    /\ UNCHANGED <<now, ttl, disk, call, sweepers, tickReady, nextTick, tickerOn,
                   loopOn, stopClosed, panicked, rmMissed, warnings>>

\* scheduleDeletion: os.Remove(filePath).
SchedRmFile(k) ==
    /\ ~panicked
    /\ sched[k].pc = "rmfile"
    /\ LET p == sched[k].filePath
           err == OsRemoveErr(disk, p)
       IN /\ disk' = OsRemoveDisk(disk, p)
          /\ rmMissed' = IF IsNotExist(err) THEN rmMissed \cup {"sched"} ELSE rmMissed
          /\ warnings' = IF LogsWarning(err) THEN warnings + 1 ELSE warnings
    /\ sched' = [sched EXCEPT ![k].pc =
           IF HasDistinctOriginal(sched[k].filePath, sched[k].originalPath)
           THEN "rmorig" ELSE "done"]
    /\ lastGet' = NoGet
    /\ UNCHANGED <<pipeVars, convVars, lockVars, mainVars>>
    /\ UNCHANGED <<now, ttl, files, call, sweepers, tickReady, nextTick, tickerOn,
                   loopOn, stopClosed, panicked>>

\* scheduleDeletion: os.Remove(originalPath).
SchedRmOrig(k) ==
    /\ ~panicked
    /\ sched[k].pc = "rmorig"
    /\ LET p == sched[k].originalPath
           err == OsRemoveErr(disk, p)
       IN /\ disk' = OsRemoveDisk(disk, p)
          /\ rmMissed' = IF IsNotExist(err) THEN rmMissed \cup {"sched"} ELSE rmMissed
          /\ warnings' = IF LogsWarning(err) THEN warnings + 1 ELSE warnings
    /\ sched' = [sched EXCEPT ![k].pc = "done"]
    /\ lastGet' = NoGet
    /\ UNCHANGED <<pipeVars, convVars, lockVars, mainVars>>
    /\ UNCHANGED <<now, ttl, files, call, sweepers, tickReady, nextTick, tickerOn,
                   loopOn, stopClosed, panicked>>

\* The sweep has work that is due: a tick to serve or files to delete.
SweepDue == loopOn /\ (tickReady \/ lk.loop = "cleanup" \/ sweepers # {})

\* A minute passes; the ticker delivers its tick when it is due (the channel holds
\* one tick, a second one is dropped).
AdvanceTime ==
    /\ ~panicked
    /\ now < Horizon
    /\ StoreInFlight => now + 1 <= MaxSlack
    /\ now' = now + 1
    /\ IF tickerOn /\ now + 1 >= nextTick
       THEN tickReady' = TRUE /\ nextTick' = nextTick + SweepInterval
       ELSE UNCHANGED <<tickReady, nextTick>>
    /\ lastGet' = NoGet
    /\ UNCHANGED <<pipeVars, convVars, lockVars, mainVars>>
    /\ UNCHANGED <<ttl, files, disk, call, sched, sweepers, tickerOn, loopOn,
                   stopClosed, panicked, rmMissed, warnings>>

\* The entries cleanup() finds expired.
ExpiredIds == {id \in DOMAIN files : Expired(files[id], now)}

\* The orders in which `range ts.files` may yield a set of entries.
Orders(S) == {s \in [1..Cardinality(S) -> S] : \A i, j \in 1..Cardinality(S) : s[i] = s[j] => i = j}

\* cleanupLoop: case <-ts.cleanupTicker.C: the select receives the tick, which
\* empties the ticker's channel, and the loop calls ts.cleanup().
LoopTick ==
    /\ ~panicked
    /\ loopOn
    /\ lk.loop = "select"
    /\ tickReady
    /\ tickReady' = FALSE
    /\ lk' = [lk EXCEPT !.loop = "cleanup"]
    /\ lastGet' = NoGet
    /\ UNCHANGED <<pipeVars, convVars, mu, mainVars>>
    /\ UNCHANGED <<now, ttl, files, disk, call, sched, sweepers, nextTick, tickerOn,
                   loopOn, stopClosed, panicked, rmMissed, warnings>>

\* cleanup(), its locked section as one step: it removes the expired entries and
\* leaves their files to a goroutine; the loop is back in its select.
LoopSweep ==
    /\ ~panicked
    /\ loopOn
    /\ lk.loop = "cleanup"
    /\ lk' = [lk EXCEPT !.loop = "select"]
    /\ files' = [i \in DOMAIN files \ ExpiredIds |-> files[i]]
    /\ IF ExpiredIds # {}
       THEN \E o \in Orders(ExpiredIds) :
               sweepers' = sweepers \cup
                   {[todo |-> [i \in 1..Len(o) |-> files[o[i]]], stage |-> "path"]}
       ELSE UNCHANGED sweepers
    /\ lastGet' = NoGet
    /\ UNCHANGED <<pipeVars, convVars, mu, mainVars>>
    /\ UNCHANGED <<now, ttl, disk, call, sched, tickReady, nextTick, tickerOn, loopOn,
                   stopClosed, panicked, rmMissed, warnings>>

\* cleanupLoop: case <-ts.stopCleanup: ts.cleanupTicker.Stop(); return.
LoopStop ==
    /\ ~panicked
    /\ loopOn
    /\ lk.loop = "select"
    /\ stopClosed
    /\ loopOn' = FALSE
    /\ tickerOn' = FALSE
    /\ lastGet' = NoGet
    /\ UNCHANGED <<pipeVars, convVars, lockVars, mainVars>>
    /\ UNCHANGED <<now, ttl, files, disk, call, sched, sweepers, tickReady, nextTick,
                   stopClosed, panicked, rmMissed, warnings>>

\* What is left to a sweep goroutine after the step it is at.
SweeperAfterFirstOnly(g) == {}
SweeperAfter(g) ==
    LET tf == Head(g.todo)
    IN IF g.stage = "path" /\ HasDistinctOriginal(tf.Path, tf.OriginalPath)
       THEN {[todo |-> g.todo, stage |-> "orig"]}
       ELSE IF Len(g.todo) > 1
            THEN {[todo |-> Tail(g.todo), stage |-> "path"]}
            ELSE {}

\* cleanup's goroutine: one os.Remove, of tf.Path or of tf.OriginalPath.
SweepRemove(g) ==
    /\ ~panicked
    /\ g \in sweepers
    /\ LET tf == Head(g.todo)
           p == IF g.stage = "path" THEN tf.Path ELSE tf.OriginalPath
           err == OsRemoveErr(disk, p)
       IN /\ disk' = OsRemoveDisk(disk, p)
          /\ rmMissed' = IF IsNotExist(err) THEN rmMissed \cup {"sweep"} ELSE rmMissed
          /\ warnings' = IF LogsWarning(err) THEN warnings + 1 ELSE warnings
    /\ sweepers' = (sweepers \ {g}) \cup SweeperAfter(g)
    /\ lastGet' = NoGet
    /\ UNCHANGED <<pipeVars, convVars, lockVars, mainVars>>
    /\ UNCHANGED <<now, ttl, files, call, sched, tickReady, nextTick, tickerOn,
                   loopOn, stopClosed, panicked>>

\* Stop(): close(ts.stopCleanup). Closing a closed channel panics: the process
\* dies, and with it the map and every goroutine; the files stay on the disk.
StopCall ==
    /\ ~panicked
    /\ lastGet' = NoGet
    /\ UNCHANGED <<pipeVars, convVars, lockVars>>
    /\ IF stopClosed
       THEN /\ panicked' = TRUE
            /\ files' = <<>>
            /\ sched' = [k \in Objects |-> NoSched]
            /\ sweepers' = {}
            /\ tickReady' = FALSE
            /\ tickerOn' = FALSE
            /\ loopOn' = FALSE
            /\ UNCHANGED <<now, ttl, disk, call, nextTick, stopClosed, rmMissed, warnings>>
       ELSE /\ stopClosed' = TRUE
            /\ UNCHANGED <<now, ttl, files, disk, call, sched, sweepers, tickReady,
                           nextTick, tickerOn, loopOn, panicked, rmMissed, warnings>>
\* Stop() called by anyone but main's shutdown goroutine.
Stop == StopCall /\ UNCHANGED mainVars

StoreNext ==
    \/ \E k \in Objects, in \in StoreInputs : StoreBegin(k, in, TRUE)
    \/ \E k \in Objects : StoreBegin(k, MissingInput, FALSE)
    \/ \E k \in Objects : StoreInsert(k)
    \/ \E k \in Objects : StoreSpawn(k)
    \/ \E id \in Objects : Get(id)
    \/ \E k \in Objects : SchedUnmap(k)
    \/ \E k \in Objects : SchedRmFile(k)
    \/ \E k \in Objects : SchedRmOrig(k)
    \/ AdvanceTime
    \/ LoopTick
    \/ LoopSweep
    \/ LoopStop
    \/ \E g \in sweepers : SweepRemove(g)
    \/ Stop

\* The store as constructed, no request running.
Init == StoreInit /\ PipeIdle /\ ConvIdle /\ LockIdle /\ MainIdle

SpecStore == Init /\ [][StoreNext]_vars

\* The store's state changes: every operation but Get, which only reads.
\* The inputs of the fair specifications: an artifact with its own source file
\* and one that is its own source.
FairInputs == {in \in StoreInputs : in.origKind # "empty"}
\* NewTempStorage(1)
FairInit == Init /\ ttl = NormTTL(1)
StoreWriteNext ==
    \/ \E k \in Objects, in \in FairInputs : StoreBegin(k, in, TRUE)
    \/ \E k \in Objects : StoreBegin(k, MissingInput, FALSE)
    \/ \E k \in Objects : StoreInsert(k)
    \/ \E k \in Objects : StoreSpawn(k)
    \/ \E k \in Objects : SchedUnmap(k)
    \/ \E k \in Objects : SchedRmFile(k)
    \/ \E k \in Objects : SchedRmOrig(k)
    \/ AdvanceTime
    \/ LoopTick
    \/ LoopSweep
    \/ LoopStop
    \/ \E g \in sweepers : SweepRemove(g)
    \/ Stop

\* The store with every goroutine scheduled fairly and the clock running: what
\* the Go runtime gives a process that keeps running. The sweep gets no fairness.
FairSpecStore ==
    /\ FairInit /\ [][StoreWriteNext]_vars
    /\ WF_vars(AdvanceTime)
    /\ \A k \in Objects : WF_vars(StoreInsert(k))
    /\ \A k \in Objects : WF_vars(StoreSpawn(k))
    /\ \A k \in Objects : WF_vars(SchedUnmap(k))
    /\ \A k \in Objects : WF_vars(SchedRmFile(k))
    /\ \A k \in Objects : WF_vars(SchedRmOrig(k))

\* The store with every goroutine it starts scheduled fairly: the scheduled
\* deletions, the sweep's file-deletion goroutines and the sweep loop's stop case
\* (a select with a closed channel among its cases cannot block, and each time
\* it chooses among the ready cases at random).
FairSpecGoroutines ==
    /\ FairSpecStore
    /\ WF_vars(LoopSweep)
    /\ WF_vars(LoopStop)
    /\ WF_vars(\E g \in sweepers : SweepRemove(g))

\* The store when nothing but the scheduled deletions is starved: the clock does
\* not advance while a Store call, a tick or a sweep's file deletion is pending.
AdvanceTimePrompt == ~SweepDue /\ ~StoreInFlight /\ AdvanceTime

StorePromptNext ==
    \/ \E k \in Objects, in \in StoreInputs : StoreBegin(k, in, TRUE)
    \/ \E k \in Objects : StoreBegin(k, MissingInput, FALSE)
    \/ \E k \in Objects : StoreInsert(k)
    \/ \E k \in Objects : StoreSpawn(k)
    \/ \E id \in Objects : Get(id)
    \/ \E k \in Objects : SchedUnmap(k)
    \/ \E k \in Objects : SchedRmFile(k)
    \/ \E k \in Objects : SchedRmOrig(k)
    \/ AdvanceTimePrompt
    \/ LoopTick
    \/ LoopSweep
    \/ LoopStop
    \/ \E g \in sweepers : SweepRemove(g)
    \/ Stop

SpecStorePrompt == Init /\ [][StorePromptNext]_vars

\* The store when the random source may return to a Store call any id, one
\* that an earlier call drew included. Get and Stop are left out: they insert
\* and remove nothing.
StoreIdsNext ==
    \/ \E k \in Objects, id \in Objects, in \in StoreInputs : StoreCall(k, id, in, TRUE)
    \/ \E k \in Objects : StoreInsert(k)
    \/ \E k \in Objects : StoreSpawn(k)
    \/ \E k \in Objects : SchedUnmap(k)
    \/ \E k \in Objects : SchedRmFile(k)
    \/ \E k \in Objects : SchedRmOrig(k)
    \/ AdvanceTime
    \/ LoopTick
    \/ LoopSweep
    \/ \E g \in sweepers : SweepRemove(g)

SpecStoreIds == Init /\ [][StoreIdsNext]_vars

\* ------------------------------------------------------- the store's lock
\* The same store with every Lock, Unlock, RLock and RUnlock a step of its own.
\* sync.RWMutex: Lock is granted when nobody holds the mutex, RLock when nobody
\* holds it exclusively.
CanLock(m) == m.w = NoHolder /\ m.r = {}
CanRLock(m) == m.w = NoHolder

\* Where Store goes after os.Stat succeeded and where scheduleDeletion goes after
\* its delete: "insert" is reached by ts.mu.Lock(), "unlock" is ts.mu.Unlock().
SchedAfterDeleteLocked == "rmfile"
SchedAfterDelete == "unlock"

\* Store: ts.mu.Lock()
LkStoreLock(k) ==
    /\ call[k].pc = "built"
    /\ CanLock(mu)
    /\ mu' = [mu EXCEPT !.w = <<"Store", k>>]
    /\ call' = [call EXCEPT ![k].pc = "insert"]
    /\ lastGet' = NoGet
    /\ UNCHANGED <<pipeVars, convVars, lk, mainVars>>
    /\ UNCHANGED <<now, ttl, files, disk, sched, sweepers, tickReady, nextTick, tickerOn,
                   loopOn, stopClosed, panicked, rmMissed, warnings>>

\* Store: ts.files[id] = tf
LkStoreInsert(k) ==
    /\ call[k].pc = "insert"
    /\ files' = [i \in DOMAIN files \cup {call[k].tf.ID} |->
                    IF i = call[k].tf.ID THEN call[k].tf ELSE files[i]]
    /\ call' = [call EXCEPT ![k].pc = "unlock"]
    /\ lastGet' = NoGet
    /\ UNCHANGED <<pipeVars, convVars, lockVars, mainVars>>
    /\ UNCHANGED <<now, ttl, disk, sched, sweepers, tickReady, nextTick, tickerOn,
                   loopOn, stopClosed, panicked, rmMissed, warnings>>

\* Store: ts.mu.Unlock()
LkStoreUnlock(k) ==
    /\ call[k].pc = "unlock"
    /\ mu.w = <<"Store", k>>
    /\ mu' = [mu EXCEPT !.w = NoHolder]
    /\ call' = [call EXCEPT ![k].pc = "spawn"]
    /\ lastGet' = NoGet
    /\ UNCHANGED <<pipeVars, convVars, lk, mainVars>>
    /\ UNCHANGED <<now, ttl, files, disk, sched, sweepers, tickReady, nextTick, tickerOn,
                   loopOn, stopClosed, panicked, rmMissed, warnings>>

\* scheduleDeletion: time.Sleep(ttl) has returned; ts.mu.Lock()
LkSchedLock(k) ==
    /\ sched[k].pc = "sleep"
    /\ AfterOrEqual(now, sched[k].wakeAt)
    /\ CanLock(mu)
    /\ mu' = [mu EXCEPT !.w = <<"scheduleDeletion", k>>]
    /\ sched' = [sched EXCEPT ![k].pc = "delete"]
    /\ lastGet' = NoGet
    /\ UNCHANGED <<pipeVars, convVars, lk, mainVars>>
    /\ UNCHANGED <<now, ttl, files, disk, call, sweepers, tickReady, nextTick, tickerOn,
                   loopOn, stopClosed, panicked, rmMissed, warnings>>

\* scheduleDeletion: delete(ts.files, id)
LkSchedDelete(k) ==
    /\ sched[k].pc = "delete"
    /\ files' = MapDelete(files, sched[k].id)
    /\ sched' = [sched EXCEPT ![k].pc = SchedAfterDelete]
    /\ lastGet' = NoGet
    /\ UNCHANGED <<pipeVars, convVars, lockVars, mainVars>>
    /\ UNCHANGED <<now, ttl, disk, call, sweepers, tickReady, nextTick, tickerOn,
                   loopOn, stopClosed, panicked, rmMissed, warnings>>

\* scheduleDeletion: ts.mu.Unlock(); the two os.Remove calls follow (SchedRmFile,
\* SchedRmOrig).
LkSchedUnlock(k) ==
    /\ sched[k].pc = "unlock"
    /\ mu.w = <<"scheduleDeletion", k>>
    /\ mu' = [mu EXCEPT !.w = NoHolder]
    /\ sched' = [sched EXCEPT ![k].pc = "rmfile"]
    /\ lastGet' = NoGet
    /\ UNCHANGED <<pipeVars, convVars, lk, mainVars>>
    /\ UNCHANGED <<now, ttl, files, disk, call, sweepers, tickReady, nextTick, tickerOn,
                   loopOn, stopClosed, panicked, rmMissed, warnings>>

\* cleanup, called with the tick taken: ts.mu.Lock(); defer ts.mu.Unlock()
LkLoopLock ==
    /\ loopOn
    /\ lk.loop = "cleanup"
    /\ CanLock(mu)
    /\ mu' = [mu EXCEPT !.w = LoopG]
    /\ lk' = [lk EXCEPT !.loop = "scan"]
    /\ lastGet' = NoGet
    /\ UNCHANGED <<pipeVars, convVars, mainVars>>
    /\ UNCHANGED <<now, ttl, files, disk, call, sched, sweepers, tickReady, nextTick,
                   tickerOn, loopOn, stopClosed, panicked, rmMissed, warnings>>

\* cleanup: the range over ts.files, which deletes the expired entries and
\* collects them in expiredFiles.
LkLoopScan ==
    /\ lk.loop = "scan"
    /\ files' = [i \in DOMAIN files \ ExpiredIds |-> files[i]]
    /\ \E o \in Orders(ExpiredIds) :
          lk' = [lk EXCEPT !.expired = [i \in 1..Len(o) |-> files[o[i]]],
                           !.loop = IF ExpiredIds # {} THEN "spawn" ELSE "unlock"]
    /\ lastGet' = NoGet
    /\ UNCHANGED <<pipeVars, convVars, mu, mainVars>>
    /\ UNCHANGED <<now, ttl, disk, call, sched, sweepers, tickReady, nextTick, tickerOn,
                   loopOn, stopClosed, panicked, rmMissed, warnings>>

\* cleanup: go func() { ... } over expiredFiles, started before cleanup returns.
LkLoopSpawn ==
    /\ lk.loop = "spawn"
    /\ sweepers' = sweepers \cup {[todo |-> lk.expired, stage |-> "path"]}
    /\ lk' = [lk EXCEPT !.loop = "unlock"]
    /\ lastGet' = NoGet
    /\ UNCHANGED <<pipeVars, convVars, mu, mainVars>>
    /\ UNCHANGED <<now, ttl, files, disk, call, sched, tickReady, nextTick, tickerOn,
                   loopOn, stopClosed, panicked, rmMissed, warnings>>

\* cleanup returns: the deferred ts.mu.Unlock(); cleanupLoop is back in its select.
LkLoopUnlock ==
    /\ lk.loop = "unlock"
    /\ mu.w = LoopG
    /\ mu' = [mu EXCEPT !.w = NoHolder]
    /\ lk' = [lk EXCEPT !.loop = "select", !.expired = <<>>]
    /\ lastGet' = NoGet
    /\ UNCHANGED <<pipeVars, convVars, mainVars>>
    /\ UNCHANGED <<now, ttl, files, disk, call, sched, sweepers, tickReady, nextTick,
                   tickerOn, loopOn, stopClosed, panicked, rmMissed, warnings>>

\* Get(id) and GetStats(): ts.mu.RLock(); defer ts.mu.RUnlock()
LkRLock(r, id) ==
    /\ lk.rd[r].pc = "idle"
    /\ CanRLock(mu)
    /\ mu' = [mu EXCEPT !.r = @ \cup {r}]
    /\ lk' = [lk EXCEPT !.rd[r] = [pc |-> "read", id |-> id, stats |-> NoStats]]
    /\ lastGet' = NoGet
    /\ UNCHANGED <<pipeVars, convVars, mainVars>>
    /\ UNCHANGED <<now, ttl, files, disk, call, sched, sweepers, tickReady, nextTick,
                   tickerOn, loopOn, stopClosed, panicked, rmMissed, warnings>>

\* Get: the lookup ts.files[id] and the expiry test.
LkGetRead ==
    /\ lk.rd[<<"Get", 0>>].pc = "read"
    /\ lastGet' = GetResult(lk.rd[<<"Get", 0>>].id)
    /\ lk' = [lk EXCEPT !.rd[<<"Get", 0>>].pc = "runlock"]
    /\ UNCHANGED <<pipeVars, convVars, mu, mainVars>>
    /\ UNCHANGED <<now, ttl, files, disk, call, sched, sweepers, tickReady, nextTick,
                   tickerOn, loopOn, stopClosed, panicked, rmMissed, warnings>>

\* GetStats: the range over ts.files and len(ts.files).
LkStatsRead ==
    /\ lk.rd[<<"GetStats", 0>>].pc = "read"
    /\ lk' = [lk EXCEPT !.rd[<<"GetStats", 0>>] =
                 [pc |-> "runlock", id |-> 0,
                  stats |-> [total_files |-> Cardinality(DOMAIN files)]]]
    /\ lastGet' = NoGet
    /\ UNCHANGED <<pipeVars, convVars, mu, mainVars>>
    /\ UNCHANGED <<now, ttl, files, disk, call, sched, sweepers, tickReady, nextTick,
                   tickerOn, loopOn, stopClosed, panicked, rmMissed, warnings>>

\* Get and GetStats return: the deferred ts.mu.RUnlock()
LkRUnlock(r) ==
    /\ lk.rd[r].pc = "runlock"
    /\ r \in mu.r
    /\ mu' = [mu EXCEPT !.r = @ \ {r}]
    /\ lk' = [lk EXCEPT !.rd[r] = IdleReader]
    /\ lastGet' = NoGet
    /\ UNCHANGED <<pipeVars, convVars, mainVars>>
    /\ UNCHANGED <<now, ttl, files, disk, call, sched, sweepers, tickReady, nextTick,
                   tickerOn, loopOn, stopClosed, panicked, rmMissed, warnings>>

\* The callers of this specification store what the pipeline stores: an artifact
\* and an original that is a file of its own.
LockInputs == {in \in StoreInputs : in.origKind = "distinct"}

LockNext ==
    \/ \E k \in Objects, in \in LockInputs : StoreBegin(k, in, TRUE)
    \/ \E k \in Objects : LkStoreLock(k)
    \/ \E k \in Objects : LkStoreInsert(k)
    \/ \E k \in Objects : LkStoreUnlock(k)
    \/ \E k \in Objects : StoreSpawn(k)
    \/ \E k \in Objects : LkSchedLock(k)
    \/ \E k \in Objects : LkSchedDelete(k)
    \/ \E k \in Objects : LkSchedUnlock(k)
    \/ \E k \in Objects : SchedRmFile(k)
    \/ \E k \in Objects : SchedRmOrig(k)
    \/ AdvanceTime
    \/ LoopTick
    \/ LkLoopLock
    \/ LkLoopScan
    \/ LkLoopSpawn
    \/ LkLoopUnlock
    \/ \E g \in sweepers : SweepRemove(g)
    \/ \E id \in Objects : LkRLock(<<"Get", 0>>, id)
    \/ LkRLock(<<"GetStats", 0>>, 0)
    \/ LkGetRead
    \/ LkStatsRead
    \/ \E r \in Readers : LkRUnlock(r)

\* The store with its lock operations as steps. Stop is left out: it touches
\* neither the map nor the lock.
\* The lock operations do not depend on the TTL: one TTL is explored.
LockInit == Init /\ ttl = NormTTL(1)
SpecLocks == LockInit /\ [][LockNext]_vars

\* ------------------------------------------------------------ the exchanges
\* Bodies a server may send.
Mp4Body == [size |-> 2000, magic |-> "mp4", ftypAt |-> 4, mdatAt |-> 40]
Mp4NoMdat == [size |-> 2000, magic |-> "mp4", ftypAt |-> 4, mdatAt |-> -1]
Mp4NoFtyp == [size |-> 2000, magic |-> "other", ftypAt |-> -1, mdatAt |-> 40]
JpegBody == [size |-> 2000, magic |-> "jpeg", ftypAt |-> -1, mdatAt |-> -1]
PngBody == [size |-> 2000, magic |-> "png", ftypAt |-> -1, mdatAt |-> -1]
Mp3Body == [size |-> 2000, magic |-> "other", ftypAt |-> -1, mdatAt |-> -1]
SmallBody == [size |-> 50, magic |-> "other", ftypAt |-> -1, mdatAt |-> -1]
FullBody == [size |-> maxSize, magic |-> "other", ftypAt |-> -1, mdatAt |-> -1]
HugeBody == [size |-> maxSize + 1, magic |-> "other", ftypAt |-> -1, mdatAt |-> -1]
GiantBody == [size |-> maxSize + 1000, magic |-> "other", ftypAt |-> -1, mdatAt |-> -1]

\* A complete answer, its length declared or not.
Complete(body, declared) ==
    Response(NoError, 200, IF declared THEN body.size ELSE -1, body, body.size,
             NoError, "none")
\* An answer whose body stops after sent bytes with readErr.
Broken(body, declared, sent, readErr) ==
    Response(NoError, 200, IF declared THEN body.size ELSE -1, body, sent, readErr, "none")

\* The exchanges the model offers to an attempt.
Responses ==
    {Complete(b, d) : b \in {Mp4Body, Mp4NoMdat, Mp4NoFtyp, JpegBody, PngBody, Mp3Body,
                             SmallBody, NoData, FullBody, HugeBody, GiantBody},
                      d \in BOOLEAN}
    \cup {Broken(Mp4Body, d, 1000, e) : d \in BOOLEAN, e \in {MsgUnexpectedEOF, MsgConnReset}}
    \cup {Response(e, 0, 0, NoData, 0, NoError, "none") :
              e \in {MsgConnRefused, MsgConnReset, MsgNoSuchHost, MsgEOF}}
    \cup {Response(NoError, s, 0, NoData, 0, NoError, "none") : s \in {404, 503}}
    \cup {Response(NoError, 200, 2000, Mp4Body, 1000, NoError, "body"),
          Response(NoError, 0, 0, NoData, 0, NoError, "headers")}
\* bufferPool.GetStats().Allocated, as an attempt may find it.
PoolAllocated == {0, 4096}

\* The deadlines callers of Download attach to the context, in seconds.
CallTimeouts == {ShortTimeout, DefaultRequestTimeout}

\* The URLs callers hand in.
URLs ==
    {<<"h", "t", "t", "p", "s", ":", "/", "/", "h", "/", "a", ".", "m", "p", "4">>,
     <<"h", "t", "t", "p", "s", ":", "/", "/", "h", "/", "a", ".", "P", "N", "G">>,
     <<"h", "t", "t", "p", ":", "/", "/", "h", "/", "a", ".", "m", "p", "3">>,
     <<"f", "t", "p", ":", "/", "/", "h", "/", "a", ".", "o", "g", "g">>,
     <<"h", "t", "t", "p", "s", ":", "/", "/", "h", "/", "a", "\n", ".", "j", "p", "g">>,
     <<"h", "t", "t", "p", "s", ":", "/", "/", "h", "/", "a", ".", "t", "x", "t">>,
     <<>>}

\* ----------------------------------------------------------------- Download
\* Download returns.
DownloadDone(data, err) == [dl EXCEPT !.pc = "done", !.data = data, !.err = err]

\* Download up to its loop: the checks of the URL.
DownloadEnterUnchecked(url, deadline) ==
    [NoDownload EXCEPT !.url = url, !.deadline = deadline, !.pc = "attempt", !.attempt = 1]
DownloadEnter(url, deadline) ==
    LET d == [NoDownload EXCEPT !.url = url, !.deadline = deadline]
    IN IF url = <<>> THEN [d EXCEPT !.pc = "done", !.err = <<"e", "m", "p", "t", "y", " ", "U",
            "R", "L">>]
       ELSE IF ~HasPrefix(url, <<"h", "t", "t", "p", ":", "/", "/">>) /\ ~HasPrefix(url, <<"h",
               "t", "t", "p", "s", ":", "/", "/">>)
       THEN [d EXCEPT !.pc = "done",
                      !.err = <<"i", "n", "v", "a", "l", "i", "d", " ", "U", "R", "L", " ",
                                "s", "c", "h", "e", "m", "e", ":", " ", "m", "u", "s", "t",
                                " ", "b", "e", " ", "h", "t", "t", "p", ":", "/", "/", " ",
                                "o", "r", " ", "h", "t", "t", "p", "s", ":", "/", "/">>]
       ELSE [d EXCEPT !.pc = "attempt", !.attempt = 1]

\* An entry of dlLog: an attempt (its number, its start, the return it took, the
\* Content-Length and the body bytes the server sent, the bytes the attempt read
\* and the bytes it returned, what it did to a pooled buffer) or a backoff wait.
LogEntry(ev, n, at, err, site, readErr, resp, read, size, buf) ==
    [ev |-> ev, n |-> n, at |-> at, err |-> err, site |-> site, readErr |-> readErr,
     length |-> resp.contentLength, sent |-> resp.sent, read |-> read, size |-> size,
     pool |-> buf.pool, alias |-> buf.alias]
\* No answer: the resp of the entry of a backoff wait.
NoResponse == Response(NoError, 0, 0, NoData, 0, NoError, "none")

\* A caller calls Download(ctx, url) with a context that expires after timeout.
DownloadCall(url, timeout) ==
    /\ dl.pc = "idle"
    /\ proc.stage = "idle"
    /\ clock' = 0
    /\ dl' = DownloadEnter(url, timeout)
    /\ dlLog' = <<>>
    /\ UNCHANGED <<storeVars, proc, requestTimeout, convVars, lockVars, mainVars>>

\* One turn of Download's loop: downloadWithValidation and what the loop makes
\* of its error.
DownloadAttempt(resp, allocated) ==
    /\ dl.pc = "attempt"
    /\ LET r == downloadWithValidation(dl.url, resp, allocated, clock, AnswerDelay,
                                       dl.deadline)
       IN /\ clock' = r.end
          /\ dlLog' = Append(dlLog,
                 LogEntry("attempt", dl.attempt, clock, r.err, r.site,
                          IF r.site \in {"pooledIncomplete", "pooledRead", "directRead",
                                         "unknownRead"}
                          THEN resp.readErr ELSE NoError,
                          resp, r.read, r.data.size, r @@ NoBuffer))
          /\ dl' = IF r.err = NoError THEN DownloadDone(r.data, NoError)
                   ELSE IF ~isRetryableError(r.err)
                   THEN [DownloadDone(NoData, r.err) EXCEPT !.lastErr = r.err]
                   ELSE IF dl.attempt < MaxAttempts
                   THEN [dl EXCEPT !.pc = "sleep", !.lastErr = r.err]
                   ELSE [DownloadDone(NoData,
                                      <<"d", "o", "w", "n", "l", "o", "a", "d", " ", "f", "a",
                                        "i", "l", "e", "d", " ", "a", "f", "t", "e", "r", " ",
                                        "3", " ", "a", "t", "t", "e", "m", "p", "t", "s", ":",
                                        " ">> \o r.err)
                             EXCEPT !.lastErr = r.err]
    /\ UNCHANGED <<storeVars, proc, requestTimeout, convVars, lockVars, mainVars>>

\* Download: time.Sleep(time.Duration(attempt) * time.Second), then attempt++.
DownloadSleep ==
    /\ dl.pc = "sleep"
    /\ dlLog' = Append(dlLog,
           LogEntry("sleep", BackoffDelay(dl.attempt), clock, NoError, "", NoError,
                    NoResponse, 0, 0, NoBuffer))
    /\ clock' = clock + BackoffDelay(dl.attempt)
    /\ dl' = [dl EXCEPT !.pc = "attempt", !.attempt = @ + 1]
    /\ UNCHANGED <<storeVars, proc, requestTimeout, convVars, lockVars, mainVars>>

DownloadNext ==
    \/ \E url \in URLs, timeout \in CallTimeouts : DownloadCall(url, timeout)
    \/ \E resp \in Responses, allocated \in PoolAllocated :
           DownloadAttempt(resp, allocated)
    \/ DownloadSleep

SpecDownload == Init /\ [][DownloadNext]_vars

\* ------------------------------------------------------------------ Process
\* Process enters stage s.
Enter(p, s) == [p EXCEPT !.stage = s, !.trace = Append(@, s)]
\* Process returns a failure.
Fail(p, status, message) ==
    [p EXCEPT !.stage = "done", !.ok = FALSE, !.status = status, !.message = message]

\* POST /api/process arrives: Process binds the body, checks the URL, detects the
\* media type, makes the context and calls Download.
ProcessBegin(url, bodyOk) ==
    /\ proc.stage \in {"idle", "done"}
    /\ dl.pc \in {"idle", "done"}
    /\ proc.k < MaxObjects
    /\ LET k == proc.k + 1
           p0 == [IdleProc EXCEPT !.k = k, !.url = url, !.trace = <<"detect">>,
                                  !.stage = "detect"]
           det == detectMediaTypeAndFormatFromURL(url)
       IN IF ~bodyOk
          THEN /\ proc' = Fail([p0 EXCEPT !.url = <<>>], 400, <<"I", "n", "v", "a", "l", "i",
                  "d", " ", "r", "e", "q", "u", "e", "s", "t", " ", "b", "o", "d", "y">>)
               /\ dl' = NoDownload
          ELSE IF url = <<>>
          THEN /\ proc' = Fail(p0, 400, <<"a", "r", "q", "u", "i", "v", "o", " ", "(", "U",
                  "R", "L", ")", " ", "i", "s", " ", "r", "e", "q", "u", "i", "r", "e", "d">>)
               /\ dl' = NoDownload
          ELSE IF det.mediaType = ""
          THEN /\ proc' = Fail(p0, 400,
                   <<"C", "o", "u", "l", "d", " ", "n", "o", "t", " ", "d", "e", "t", "e", "c",
                     "t", " ", "m", "e", "d", "i", "a", " ", "t", "y", "p", "e", " ", "f", "r",
                     "o", "m", " ", "U", "R", "L", ".", " ", "S", "u", "p", "p", "o", "r", "t",
                     "e", "d", ":", " ", ".", "m", "p", "3", ",", " ", ".", "o", "p", "u", "s",
                     ",", " ", ".", "m", "p", "4", ",", " ", ".", "j", "p", "g", ",", " ", ".",
                     "j", "p", "e", "g", ",", " ", ".", "p", "n", "g">>)
               /\ dl' = NoDownload
          ELSE /\ proc' = Enter([p0 EXCEPT !.mediaType = det.mediaType,
                                           !.format = det.format],
                                NextStage("detect"))
               /\ dl' = DownloadEnter(url, requestTimeout)
    /\ clock' = 0
    /\ dlLog' = <<>>
    /\ UNCHANGED <<storeVars, requestTimeout, convVars, lockVars, mainVars>>

\* Download has returned to Process.
ProcessDownloaded ==
    /\ proc.stage = "download"
    /\ dl.pc = "done"
    /\ proc' = IF dl.err # NoError
               THEN Fail(proc, 400, <<"F", "a", "i", "l", "e", "d", " ", "t", "o", " ", "d",
                                      "o", "w", "n", "l", "o", "a", "d", " ", "f", "i", "l",
                                      "e", ":", " ">> \o dl.err)
               ELSE Enter([proc EXCEPT !.data = dl.data], NextStage("download"))
    /\ dlLog' = <<>>
    /\ UNCHANGED <<storeVars, clock, dl, requestTimeout, convVars, lockVars, mainVars>>

\* Process writes the original to the scratch directory and names the output;
\* when the write fails it answers 500 and removes nothing.
ProcessPersist(how) ==
    /\ proc.stage = "persist"
    /\ LET originalPath ==
               GenerateTempPath(PathID("s", proc.k), proc.mediaType) \o <<".", "o", "r", "i",
                       "g", "i", "n", "a", "l">>
           outputPath ==
               GenerateTempPathWithFormat(PathID("o", proc.k), proc.mediaType, proc.format)
           d1 == WriteFileTry(disk, originalPath, proc.data.size, how)
           p1 == [proc EXCEPT !.originalPath = originalPath,
                              !.made = IF Exists(d1, originalPath)
                                       THEN @ \cup {originalPath} ELSE @]
       IN /\ disk' = d1
          /\ proc' = IF how # "ok"
                     THEN Fail(p1, 500, <<"F", "a", "i", "l", "e", "d", " ", "t", "o", " ",
                             "s", "a", "v", "e", " ", "o", "r", "i", "g", "i", "n", "a", "l",
                             " ", "f", "i", "l", "e">>)
                     ELSE Enter([p1 EXCEPT !.outputPath = outputPath], NextStage("persist"))
    /\ UNCHANGED <<now, ttl, files, call, sched, sweepers, tickReady, nextTick, tickerOn,
                   loopOn, stopClosed, panicked, lastGet, rmMissed, warnings,
                   clock, dl, dlLog, requestTimeout, convVars, lockVars, mainVars>>

\* ConvertWithScriptTechniques of the converter for mediaType: the error of its
\* checks of the input, the temporary input it writes (video only) and the
\* path it writes its output to.
ConvertCheck(mediaType, data) ==
    IF data.size = 0 THEN <<"e", "m", "p", "t", "y", " ", "i", "n", "p", "u", "t", " ", "d",
                            "a", "t", "a">>
    ELSE IF mediaType = "video" /\ validateMP4Integrity(data) # NoError
    THEN <<"i", "n", "v", "a", "l", "i", "d", " ", "M", "P", "4", " ", "f", "i", "l", "e", ":",
           " ">> \o validateMP4Integrity(data)
    ELSE NoError
TempInput(mediaType, outputPath) ==
    IF mediaType = "video" THEN outputPath \o <<".", "i", "n", "p", "u", "t", ".", "m", "p", "4">> ELSE NoPath
FinalPath(mediaType, data, outputPath) ==
    IF mediaType = "image" THEN adjustOutputPath(outputPath, detectFormat(data))
    ELSE outputPath

\* The converter has returned err to Process.
ConvertExit(p, err) == [p EXCEPT !.conv = "exit", !.cerr = err]

\* Process calls the converter, which checks its input and, for a video, writes
\* the temporary input; it is then about to start ffmpeg. The os.Remove of the
\* temporary input is deferred only after a successful write.
ConvertBegin(how) ==
    /\ proc.stage = "transform"
    /\ proc.conv = "none"
    /\ LET check == ConvertCheck(proc.mediaType, proc.data)
           temp == TempInput(proc.mediaType, proc.outputPath)
           d1 == WriteFileTry(disk, temp, proc.data.size, how)
       IN IF check # NoError
          THEN /\ proc' = ConvertExit(proc, check)
               /\ disk' = disk
          ELSE IF temp = NoPath
          THEN /\ proc' = [proc EXCEPT !.conv = "run"]
               /\ disk' = disk
          ELSE /\ disk' = d1
               /\ proc' =
                    LET p1 == [proc EXCEPT !.made = IF Exists(d1, temp)
                                                    THEN @ \cup {temp} ELSE @]
                    IN IF how # "ok"
                       THEN ConvertExit(p1, <<"f", "a", "i", "l", "e", "d", " ", "t", "o", " ",
                               "w", "r", "i", "t", "e", " ", "t", "e", "m", "p", " ", "i", "n",
                               "p", "u", "t", ":", " ">>
                                                \o WriteFileErr(temp, how))
                       ELSE [p1 EXCEPT !.conv = "run", !.temp = temp]
    /\ UNCHANGED <<now, ttl, files, call, sched, sweepers, tickReady, nextTick, tickerOn,
                   loopOn, stopClosed, panicked, lastGet, rmMissed, warnings,
                   clock, dl, dlLog, requestTimeout, convVars, lockVars, mainVars>>

\* cmd.Run() returns: ffmpeg took delay seconds and ended as ff says, or the
\* context stopped it.
ConvertRun(ff, delay) ==
    /\ proc.stage = "transform"
    /\ proc.conv = "run"
    /\ LET run == RunFfmpeg(ff, clock, delay, dl.deadline)
       IN /\ clock' = run.end
          /\ proc' = IF run.err # NoError
                     THEN [proc EXCEPT !.conv = "defer", !.cerr = run.err]
                     ELSE [proc EXCEPT !.conv = "write"]
    /\ UNCHANGED <<storeVars, dl, dlLog, requestTimeout, convVars, lockVars, mainVars>>

\* The converter writes what ffmpeg produced to its output path.
ConvertWrite(how) ==
    /\ proc.stage = "transform"
    /\ proc.conv = "write"
    /\ LET final == FinalPath(proc.mediaType, proc.data, proc.outputPath)
           d1 == WriteFileTry(disk, final, proc.data.size, how)
       IN /\ disk' = d1
          /\ proc' = [proc EXCEPT
                         !.conv = "defer",
                         !.made = IF Exists(d1, final) THEN @ \cup {final} ELSE @,
                         !.cerr = IF how = "ok" THEN NoError
                                  ELSE <<"f", "a", "i", "l", "e", "d", " ", "t", "o", " ", "w",
                                         "r", "i", "t", "e", " ", "o", "u", "t", "p", "u", "t",
                                         " ", "f", "i", "l", "e", ":", " ">>
                                           \o WriteFileErr(final, how)]
    /\ UNCHANGED <<now, ttl, files, call, sched, sweepers, tickReady, nextTick, tickerOn,
                   loopOn, stopClosed, panicked, lastGet, rmMissed, warnings,
                   clock, dl, dlLog, requestTimeout, convVars, lockVars, mainVars>>

\* The converter returns: the deferred os.Remove(tempInput) of the video
\* converter runs.
ConvertReturn ==
    /\ proc.stage = "transform"
    /\ proc.conv = "defer"
    /\ disk' = IF proc.temp # NoPath THEN OsRemoveDisk(disk, proc.temp) ELSE disk
    /\ proc' = ConvertExit(proc, proc.cerr)
    /\ UNCHANGED <<now, ttl, files, call, sched, sweepers, tickReady, nextTick, tickerOn,
                   loopOn, stopClosed, panicked, lastGet, rmMissed, warnings,
                   clock, dl, dlLog, requestTimeout, convVars, lockVars, mainVars>>

\* Process has the converter's result; on its error it removes the original and
\* fails.
ProcessTransform ==
    /\ proc.stage = "transform"
    /\ proc.conv = "exit"
    /\ IF proc.cerr # NoError
       THEN /\ disk' = OsRemoveDisk(disk, proc.originalPath)
            /\ proc' = Fail(proc, 500, <<"P", "r", "o", "c", "e", "s", "s", "i", "n", "g", " ",
                                         "f", "a", "i", "l", "e", "d", ":", " ">> \o proc.cerr)
       ELSE /\ disk' = disk
            /\ proc' = Enter(proc, NextStage("transform"))
    /\ UNCHANGED <<now, ttl, files, call, sched, sweepers, tickReady, nextTick, tickerOn,
                   loopOn, stopClosed, panicked, lastGet, rmMissed, warnings,
                   clock, dl, dlLog, requestTimeout, convVars, lockVars, mainVars>>

\* Process: os.Stat(outputPath); when the file is not there it removes the
\* original and fails.
ProcessVerify ==
    /\ proc.stage = "verify"
    /\ IF ~Exists(disk, proc.outputPath)
       THEN /\ disk' = OsRemoveDisk(disk, proc.originalPath)
            /\ proc' = Fail(proc, 500, <<"O", "u", "t", "p", "u", "t", " ", "f", "i", "l", "e",
                                         " ", "w", "a", "s", " ", "n", "o", "t", " ", "c", "r",
                                         "e", "a", "t", "e", "d">>)
       ELSE /\ disk' = disk
            /\ proc' = Enter(proc, NextStage("verify"))
    /\ UNCHANGED <<now, ttl, files, call, sched, sweepers, tickReady, nextTick, tickerOn,
                   loopOn, stopClosed, panicked, lastGet, rmMissed, warnings,
                   clock, dl, dlLog, requestTimeout, convVars, lockVars, mainVars>>

\* Process calls Store(outputPath, originalPath, mediaType): Store up to its insert.
ProcessStore ==
    /\ proc.stage = "store"
    /\ call[proc.k].pc = "idle"
    /\ call' = [call EXCEPT ![proc.k] =
           StoreStat(disk, proc.k, proc.outputPath, proc.originalPath, proc.mediaType)]
    /\ UNCHANGED <<now, ttl, files, disk, sched, sweepers, tickReady, nextTick, tickerOn,
                   loopOn, stopClosed, panicked, lastGet, rmMissed, warnings,
                   pipeVars, convVars, lockVars, mainVars>>

\* Store has returned to Process: on its error Process removes the output and the
\* original and fails, otherwise it goes on with the id.
ProcessStored ==
    /\ proc.stage = "store"
    /\ call[proc.k].pc \in {"returned", "failed"}
    /\ IF call[proc.k].pc = "failed"
       THEN /\ disk' = OsRemoveDisk(OsRemoveDisk(disk, proc.outputPath), proc.originalPath)
            /\ proc' = Fail(proc, 500, <<"F", "a", "i", "l", "e", "d", " ", "t", "o", " ", "s",
                                         "t", "o", "r", "e", " ", "p", "r", "o", "c", "e", "s",
                                         "s", "e", "d", " ", "f", "i", "l", "e">>)
       ELSE /\ disk' = disk
            /\ proc' = Enter([proc EXCEPT !.fileID = call[proc.k].tf.ID], NextStage("store"))
    /\ UNCHANGED <<now, ttl, files, call, sched, sweepers, tickReady, nextTick, tickerOn,
                   loopOn, stopClosed, panicked, lastGet, rmMissed, warnings,
                   clock, dl, dlLog, requestTimeout, convVars, lockVars, mainVars>>

\* Process returns the success response with the id.
ProcessReturn ==
    /\ proc.stage = "return"
    /\ proc' = [proc EXCEPT !.stage = "done", !.ok = TRUE, !.status = 200,
                            !.message = <<"a", "r", "q", "u", "i", "v", "o", " ", "m", "o",
                                    "d", "i", "f", "i", "c", "a", "d", "o", " ", "c", "o", "m",
                                    " ", "s", "u", "c", "e", "s", "s", "o", "!">>]
    /\ UNCHANGED <<storeVars, clock, dl, dlLog, requestTimeout, convVars, lockVars, mainVars>>

\* The handler as constructed with the timeouts the model tries.
PipeInit ==
    /\ clock = 0
    /\ dl = NoDownload
    /\ dlLog = <<>>
    /\ proc = IdleProc
    /\ requestTimeout \in {NormRequestTimeout(t) : t \in {0, ShortTimeout}}

\* The exchanges offered to the attempts of a Process call: a complete body of
\* each kind the converters tell apart, a refused connection, a 503 and a server
\* that never sends its headers.
PipeResponses ==
    {Complete(b, TRUE) : b \in {Mp4Body, Mp4NoMdat, JpegBody, PngBody, Mp3Body, NoData}}
    \cup {Response(MsgConnRefused, 0, 0, NoData, 0, NoError, "none"),
          Response(NoError, 503, 0, NoData, 0, NoError, "none"),
          Response(NoError, 0, 0, NoData, 0, NoError, "headers")}

PipelineNext ==
    \/ \E url \in URLs, bodyOk \in BOOLEAN : ProcessBegin(url, bodyOk)
    \/ \E resp \in PipeResponses : DownloadAttempt(resp, 0)
    \/ DownloadSleep
    \/ ProcessDownloaded
    \/ \E how \in WriteOutcomes : ProcessPersist(how)
    \/ \E how \in WriteOutcomes : ConvertBegin(how)
    \/ \E ff \in {"ok", "fail", "empty"}, delay \in 0..MaxDelay : ConvertRun(ff, delay)
    \/ \E how \in WriteOutcomes : ConvertWrite(how)
    \/ ConvertReturn
    \/ ProcessTransform
    \/ ProcessVerify
    \/ ProcessStore
    \/ \E k \in Objects : StoreInsert(k)
    \/ \E k \in Objects : StoreSpawn(k)
    \/ ProcessStored
    \/ ProcessReturn

\* The store and the handler as constructed.
PipelineInit == StoreInit /\ PipeInit /\ ConvIdle /\ LockIdle /\ MainIdle

SpecPipeline == PipelineInit /\ [][PipelineNext]_vars


\* ------------------------------------------------ concurrent invocations
\* time.Now().UnixNano() as the first invocation begins (2025-10-29), and n
\* nanoseconds later.
Epoch == <<16384, 60622, 53456, 6258>>
UnixNano(n) == MulAdd64(Epoch, 1, n)
\* Two values the 16 bytes of a random read may take.
RandA == <<86, 99, 68, 101, 37, 102, 53, 35, 101, 67, 51, 66, 68, 69, 69, 84>>
RandB == <<68, 68, 68, 68, 68, 68, 68, 68, 68, 68, 68, 68, 68, 68, 68, 68>>
RandomReads == {RandA, RandB}
\* crypto/rand.Read(randomBytes): the bytes, or an error.
CryptoReads ==
    {[err |-> FALSE, bytes |-> b] : b \in RandomReads}
    \cup {[err |-> TRUE, bytes |-> [i \in 1..16 |-> 0]]}
\* What mathrand.Read reads from the process-global generator in the fallback.
FallbackReads == {RandB}
\* GenerateNonce at every reading of the clock and every outcome of its random
\* reads, and GetSeedForRand of every nonce it returns, each computed once.
NonceOf ==
    [n \in 0..MaxNanos, c \in CryptoReads, f \in FallbackReads |->
        GenerateNonce(UnixNano(n), c, f)]
IssuedNonces == {NonceOf[x] : x \in DOMAIN NonceOf}
SeedOf == [n \in IssuedNonces |-> GetSeedForRand(n)]
\* What Process hands to the converter of the media type of an invocation: the
\* bytes of the Download and the format of the URL.
OpInputs ==
    {[kind |-> "audio", data |-> Mp3Body, format |-> <<"m", "p", "3">>],
     [kind |-> "image", data |-> JpegBody, format |-> <<"j", "p", "g">>],
     [kind |-> "image", data |-> Mp3Body, format |-> <<"p", "n", "g">>],
     [kind |-> "video", data |-> Mp4Body, format |-> <<"m", "p", "4">>],
     [kind |-> "video", data |-> Mp4NoMdat, format |-> <<"m", "p", "4">>]}
\* The requests behind them: the media type and the format Process detects in
\* the URL.
OpRequests == {[kind |-> in.kind, format |-> in.format] : in \in OpInputs}
\* What h.downloader.Download returns to Process: the bytes, or an error.
OpDownloads ==
    {[data |-> in.data, err |-> NoError] : in \in OpInputs}
    \cup {[data |-> NoData, err |-> <<"d", "o", "w", "n", "l", "o", "a", "d", " ", "f", "a",
                                      "i", "l", "e", "d", ":", " ", "H", "T", "T", "P", " ",
                                      "5", "0", "3">>]}
\* The context of the request has one second left when the converter is
\* called. cmd.Run() begins t0 seconds after the call and ffmpeg takes delay
\* seconds: in time, killed by the context while it runs, or not started
\* because the context has expired.
OpDeadline == 1
RunTimes == {[t0 |-> 0, delay |-> 0], [t0 |-> 0, delay |-> 1], [t0 |-> 1, delay |-> 0]}

\* The draws ConvertWithScriptTechniques makes for its filter: each from the
\* generator localRand (the first the operation created).
ParamDrawsGlobal(kind) ==
    IF kind = "audio" THEN <<[param |-> "delayMs", gen |-> 0], [param |-> "volume", gen |-> 0]>>
    ELSE <<[param |-> "cropPixels", gen |-> 0], [param |-> "gamma", gen |-> 0]>>
ParamDraws(kind) ==
    IF kind = "audio" THEN <<[param |-> "delayMs", gen |-> 1], [param |-> "volume", gen |-> 1]>>
    ELSE <<[param |-> "cropPixels", gen |-> 1], [param |-> "gamma", gen |-> 1]>>
\* A decoded image: its width, its height and the R, G, B of its pixels.
NoImage == [w |-> 0, h |-> 0, pix |-> <<>>]
Bitmap(w, h, v) ==
    [w |-> w, h |-> h, pix |-> [p \in (0..(w - 1)) \X (0..(h - 1)) |-> <<v, v, v>>]]
\* The pixels the LSB edit changes: of (cx, cy), (cx+1, cy), (cx, cy+1) those
\* inside the image, in that order.
LSBCoords(img) ==
    LET cx == img.w \div 2
        cy == img.h \div 2
    IN SelectSeq(<<<<cx, cy>>, <<cx + 1, cy>>, <<cx, cy + 1>>>>,
                 LAMBDA c : c[1] < img.w /\ c[2] < img.h)
\* modifyImageLSBWithNonce: for each of those pixels three channels, every one
\* a draw from the generator the function creates for itself (the operation's
\* second).
LSBDraws(img) == [i \in 1..(3 * Len(LSBCoords(img))) |-> [param |-> "lsb", gen |-> 2]]
\* What image.Decode may find in the bytes of an image operation: nothing it
\* can decode, or an image of nine pixels, in which all three coordinates of the
\* edit lie.
OpImages == {NoImage, Bitmap(3, 3, 0)}
\* The variations taken from nonce.Timestamp.
FromTimestamp(kind, t) ==
    CASE kind = "audio" -> <<DivMod64(t, 10).r, DivMod64(t, 100).r>>
      [] kind = "image" -> <<DivMod64(t, 3).r, DivMod64(t, 1000).r>>
      [] kind = "video" -> <<DivMod64(t, 3).r, DivMod64(t, 1000).r, DivMod64(t, 2).r,
                             DivMod64(DivMod64(t, 10).q, 2).r>>
\* The value of a draw is fixed by the seed of its generator and its place among
\* the draws from that generator.
Drawn(gens, draws) ==
    [i \in 1..Len(draws) |->
        [param |-> draws[i].param,
         seed |-> IF draws[i].gen = 0 THEN Zero64 ELSE gens[draws[i].gen],
         index |-> Cardinality({j \in 1..i : draws[j].gen = draws[i].gen})]]
\* AudioConverter: "-f", format, by the switch on the input format.
AudioMuxer(inputFormat) ==
    LET f == ToLower(inputFormat)
    IN CASE f = <<"m", "p", "3">> -> "mp3"
         [] f = <<"o", "p", "u", "s">> -> "opus"
         [] f = <<"m", "4", "a">> -> "m4a"
         [] f = <<"a", "a", "c">> -> "m4a"
         [] f = <<"o", "g", "g">> -> "ogg"
         [] f = <<"w", "a", "v">> -> "wav"
         [] OTHER -> "opus"
\* exec.CommandContext(ctx, "ffmpeg", ...) and cmd.Stdin: the parts of the
\* command that are not the same for every operation. The input is the temporary
\* file (video) or the standard input, which holds the bytes given (for an image
\* after the pixel edit, which the draws with param "lsb" stand for); the filter
\* is built from the values drawn and those taken from nonce.Timestamp; the
\* metadata is title=uid:<nonce> (audio, video) or comment=uid:<nonce> (image).
\* What ffmpeg writes for a command is not part of the model.
FfmpegCommand(op) ==
    [input |-> IF op.kind = "video" THEN op.temp ELSE <<"p", "i", "p", "e", ":", "0">>,
     stdin |-> IF op.kind = "video" THEN NoData ELSE op.data,
     drawn |-> Drawn(op.gens, op.draws),
     fromTs |-> FromTimestamp(op.kind, op.nonce.Timestamp),
     metadata |-> (IF op.kind = "image" THEN <<"c", "o", "m", "m", "e", "n", "t", "=", "u",
             "i", "d", ":">>
                   ELSE <<"t", "i", "t", "l", "e", "=", "u", "i", "d", ":">>)
                      \o op.nonce.Nonce,
     muxer |-> CASE op.kind = "audio" -> AudioMuxer(op.format)
                 [] op.kind = "image" -> "image2"
                 [] op.kind = "video" -> "mp4"]

\* The pipeline invocations that are downloading or transforming.
Running ==
    {o \in Ops : ops[o].pc \in {"download", "persist", "convert", "lsb", "params", "run",
                                "write", "defer"}}

\* Process up to h.downloader.Download: the request is parsed, its media type
\* and the format of the URL detected, and the download runs on the goroutine
\* of the request.
OpBegin(o, req) ==
    /\ ops[o].pc = "idle"
    /\ \A j \in Ops : j < o => ops[j].pc # "idle"
    /\ ops' = [ops EXCEPT ![o] = [@ EXCEPT !.pc = "download", !.kind = req.kind,
                                             !.format = req.format]]
    /\ UNCHANGED <<storeVars, pipeVars, nano, globalReads, lockVars, mainVars>>

\* Download has returned res: on its error Process answers 400 and the
\* invocation ends; otherwise it holds the bytes.
OpDownloaded(o, res) ==
    /\ ops[o].pc = "download"
    /\ res.err = NoError =>
           [kind |-> ops[o].kind, data |-> res.data, format |-> ops[o].format] \in OpInputs
    /\ ops' = [ops EXCEPT ![o] =
                  IF res.err # NoError
                  THEN [@ EXCEPT !.pc = "done", !.status = 400,
                                 !.message = <<"F", "a", "i", "l", "e", "d", " ", "t", "o",
                                         " ", "d", "o", "w", "n", "l", "o", "a", "d", " ", "f",
                                         "i", "l", "e", ":", " ">> \o res.err]
                  ELSE [@ EXCEPT !.pc = "persist", !.data = res.data]]
    /\ UNCHANGED <<storeVars, pipeVars, nano, globalReads, lockVars, mainVars>>

\* Process writes the bytes to <id><ext>.original (how is the way os.WriteFile
\* ends): on its error it answers 500 and the invocation ends; otherwise it
\* names the output path, with a second identifier, and calls the converter of
\* the media type.
OpPersist(o, how) ==
    /\ ops[o].pc = "persist"
    /\ LET op == ops[o]
           originalPath == GenerateTempPath(PathID("s", o), op.kind) \o <<".", "o", "r", "i",
                   "g", "i", "n", "a", "l">>
           outputPath == GenerateTempPathWithFormat(PathID("o", o), op.kind, op.format)
       IN /\ disk' = WriteFileTry(disk, originalPath, op.data.size, how)
          /\ ops' = [ops EXCEPT ![o] =
                        IF how # "ok"
                        THEN [op EXCEPT !.pc = "done", !.originalPath = originalPath,
                                        !.status = 500,
                                        !.message = <<"F", "a", "i", "l", "e", "d", " ", "t",
                                                "o", " ", "s", "a", "v", "e", " ", "o", "r",
                                                "i", "g", "i", "n", "a", "l", " ", "f", "i",
                                                "l", "e">>]
                        ELSE [op EXCEPT !.pc = "convert", !.originalPath = originalPath,
                                        !.outputPath = outputPath]]
    /\ UNCHANGED <<now, ttl, files, call, sched, sweepers, tickReady, nextTick, tickerOn,
                   loopOn, stopClosed, panicked, lastGet, rmMissed, warnings,
                   pipeVars, nano, globalReads, lockVars, mainVars>>

\* ConvertWithScriptTechniques up to localRand: the checks of the input, for a
\* video the write of the temporary input (how is the way os.WriteFile ends;
\* the os.Remove is deferred after a successful write only), then GenerateNonce
\* and mathrand.New(mathrand.NewSource(nonce.GetSeedForRand())).
OpConvertBegin(o, how, crypto, fallback) ==
    /\ ops[o].pc = "convert"
    /\ LET op == ops[o]
           check == ConvertCheck(op.kind, op.data)
           temp == TempInput(op.kind, op.outputPath)
           nonce == NonceOf[nano, crypto, fallback]
       IN IF check # NoError
          THEN /\ ops' = [ops EXCEPT ![o] = [op EXCEPT !.pc = "done", !.err = check]]
               /\ UNCHANGED <<disk, globalReads>>
          ELSE IF temp # NoPath /\ how # "ok"
          THEN /\ disk' = WriteFileTry(disk, temp, op.data.size, how)
               /\ ops' = [ops EXCEPT ![o] = [op EXCEPT !.pc = "done",
                              !.err = <<"f", "a", "i", "l", "e", "d", " ", "t", "o", " ", "w",
                                        "r", "i", "t", "e", " ", "t", "e", "m", "p", " ", "i",
                                        "n", "p", "u", "t", ":", " ">>
                                          \o WriteFileErr(temp, how)]]
               /\ UNCHANGED globalReads
          ELSE /\ disk' = IF temp # NoPath THEN WriteFile(disk, temp, op.data.size)
                          ELSE disk
               /\ ops' = [ops EXCEPT ![o] = [op EXCEPT
                              !.pc = IF op.kind = "image" THEN "lsb" ELSE "params",
                              !.temp = temp,
                              !.nonce = nonce,
                              !.nonceCalls = @ + 1,
                              !.cryptoErr = crypto.err,
                              !.gens = <<SeedOf[nonce]>>]]
               /\ globalReads' = IF crypto.err THEN globalReads + 1 ELSE globalReads
    /\ UNCHANGED <<now, ttl, files, call, sched, sweepers, tickReady, nextTick, tickerOn,
                   loopOn, stopClosed, panicked, lastGet, rmMissed, warnings,
                   pipeVars, nano, lockVars, mainVars>>

\* ImageConverter: detectFormat, then modifyImageLSBWithNonce for a JPEG or PNG
\* that image.Decode accepts (img is what it decodes to); on its error the input
\* is used as it is.
OpLSB(o, img) ==
    /\ ops[o].pc = "lsb"
    /\ LET op == ops[o]
       IN IF detectFormat(op.data) \in {"jpeg", "png"} /\ img # NoImage
          THEN ops' = [ops EXCEPT ![o] = [op EXCEPT !.pc = "params",
                           !.gens = @ \o <<SeedOf[op.nonce]>>,
                           !.draws = @ \o LSBDraws(img)]]
          ELSE ops' = [ops EXCEPT ![o].pc = "params"]
    /\ UNCHANGED <<storeVars, pipeVars, nano, globalReads, lockVars, mainVars>>

\* The parameters of the filter are drawn and the command is built.
OpParams(o) ==
    /\ ops[o].pc = "params"
    /\ LET op == [ops[o] EXCEPT !.draws = @ \o ParamDraws(ops[o].kind)]
       IN ops' = [ops EXCEPT ![o] = [op EXCEPT !.pc = "run", !.cmd = FfmpegCommand(op)]]
    /\ UNCHANGED <<storeVars, pipeVars, nano, globalReads, lockVars, mainVars>>

\* The position of an operation that returns: the video converter has its
\* deferred os.Remove(tempInput) to run; the audio and image converters have
\* nothing deferred and have returned.
AtReturn(op) == IF op.temp # NoPath THEN "defer" ELSE "done"

\* cmd.Run() returns: ffmpeg ended as ff says, at the time at gives against
\* the deadline of the request's context. On an error, and when ffmpeg wrote
\* nothing to its standard output, the operation returns it.
OpRun(o, ff, at) ==
    /\ ops[o].pc = "run"
    /\ LET run == RunFfmpeg(ff, at.t0, at.delay, OpDeadline)
       IN ops' = [ops EXCEPT ![o] =
                     IF run.err # NoError
                     THEN [@ EXCEPT !.pc = AtReturn(ops[o]), !.err = run.err]
                     ELSE [@ EXCEPT !.pc = "write"]]
    /\ UNCHANGED <<storeVars, pipeVars, nano, globalReads, lockVars, mainVars>>

\* The operation writes what ffmpeg produced to its output path (how is the way
\* os.WriteFile ends).
OpWrite(o, how) ==
    /\ ops[o].pc = "write"
    /\ LET op == ops[o]
           final == FinalPath(op.kind, op.data, op.outputPath)
       IN /\ disk' = WriteFileTry(disk, final, op.data.size, how)
          /\ ops' = [ops EXCEPT ![o] = [op EXCEPT
                         !.pc = AtReturn(op),
                         !.wrote = (how = "ok"),
                         !.err = IF how = "ok" THEN NoError
                                 ELSE <<"f", "a", "i", "l", "e", "d", " ", "t", "o", " ", "w",
                                        "r", "i", "t", "e", " ", "o", "u", "t", "p", "u", "t",
                                        " ", "f", "i", "l", "e", ":", " ">>
                                          \o WriteFileErr(final, how)]]
    /\ UNCHANGED <<now, ttl, files, call, sched, sweepers, tickReady, nextTick, tickerOn,
                   loopOn, stopClosed, panicked, lastGet, rmMissed, warnings,
                   pipeVars, nano, globalReads, lockVars, mainVars>>

\* The video operation returns: its deferred os.Remove(tempInput) runs.
OpReturn(o) ==
    /\ ops[o].pc = "defer"
    /\ disk' = OsRemoveDisk(disk, ops[o].temp)
    /\ ops' = [ops EXCEPT ![o].pc = "done"]
    /\ UNCHANGED <<now, ttl, files, call, sched, sweepers, tickReady, nextTick, tickerOn,
                   loopOn, stopClosed, panicked, lastGet, rmMissed, warnings,
                   pipeVars, nano, globalReads, lockVars, mainVars>>

\* A nanosecond passes.
NanoTick ==
    /\ nano < MaxNanos
    /\ nano' = nano + 1
    /\ UNCHANGED <<storeVars, pipeVars, ops, globalReads, lockVars, mainVars>>

ConvNext ==
    \/ \E o \in Ops, req \in OpRequests : OpBegin(o, req)
    \/ \E o \in Ops, res \in OpDownloads : OpDownloaded(o, res)
    \/ \E o \in Ops, how \in WriteOutcomes : OpPersist(o, how)
    \/ \E o \in Ops, how \in WriteOutcomes, crypto \in CryptoReads, fallback \in FallbackReads :
           OpConvertBegin(o, how, crypto, fallback)
    \/ \E o \in Ops, img \in OpImages : OpLSB(o, img)
    \/ \E o \in Ops : OpParams(o)
    \/ \E o \in Ops, ff \in {"ok", "fail", "empty"}, at \in RunTimes : OpRun(o, ff, at)
    \/ \E o \in Ops, how \in WriteOutcomes : OpWrite(o, how)
    \/ \E o \in Ops : OpReturn(o)
    \/ NanoTick

\* The handler serving several requests at once, each on its own goroutine.
SpecConv == Init /\ [][ConvNext]_vars



\* --------------------------------------------------------------- shutdown
\* main: the goroutine that waits for SIGINT or SIGTERM, and main itself, which
\* blocks in app.Listen. The requests in flight are the invocations of ops.
Alive == shutdown.exited = "no"
\* The invocations that have arrived and have neither been answered with an
\* error nor left their converter.
InFlight == {o \in Ops : ops[o].pc \notin {"idle", "done"}}
\* The requests the server is sent while it shuts down.
ShutdownInputs == {req \in OpRequests : req.kind \in {"audio", "video"}}
ShutdownReads == {c \in CryptoReads : ~c.err /\ c.bytes = RandA}

\* <-sigint: the signal arrives.
ShSignal ==
    /\ Alive
    /\ shutdown.pc = "serving"
    /\ shutdown' = [shutdown EXCEPT !.pc = "poolStop"]
    /\ UNCHANGED <<storeVars, pipeVars, convVars, lockVars, calc>>

\* workerPool.Stop(): no task was ever handed to the pool, so it has nothing
\* to wait for.
ShPoolStop ==
    /\ Alive
    /\ shutdown.pc = "poolStop"
    /\ shutdown' = [shutdown EXCEPT !.pc = "storeStop", !.poolStopped = TRUE,
                                    !.calls = Append(@, "workerPool.Stop")]
    /\ UNCHANGED <<storeVars, pipeVars, convVars, lockVars, calc>>

\* tempStorage.Stop()
ShStoreStop ==
    /\ Alive
    /\ shutdown.pc = "storeStop"
    /\ StopCall
    /\ shutdown' = [shutdown EXCEPT !.pc = "appShutdown",
                                    !.calls = Append(@, "tempStorage.Stop")]
    /\ UNCHANGED calc

\* app.Shutdown() begins: it closes the listener and then waits for the
\* connections that are serving a request.
ShAppShutdown ==
    /\ Alive
    /\ shutdown.pc = "appShutdown"
    /\ shutdown' = [shutdown EXCEPT !.pc = "draining", !.listening = FALSE,
                                    !.calls = Append(@, "app.Shutdown")]
    /\ UNCHANGED <<storeVars, pipeVars, convVars, lockVars, calc>>

\* app.Shutdown() returns: no request is being served any more.
ShDrained ==
    /\ Alive
    /\ shutdown.pc = "draining"
    /\ InFlight = {}
    /\ shutdown' = [shutdown EXCEPT !.pc = "returned"]
    /\ UNCHANGED <<storeVars, pipeVars, convVars, lockVars, calc>>

\* os.Exit(0) at the end of the shutdown goroutine.
ShExit ==
    /\ Alive
    /\ shutdown.pc = "returned"
    /\ shutdown' = [shutdown EXCEPT !.pc = "exited", !.exited = "os.Exit"]
    /\ UNCHANGED <<storeVars, pipeVars, convVars, lockVars, calc>>

\* main: app.Listen returns nil once the listener is closed, and main returns,
\* which ends the process whatever its other goroutines are doing.
MainReturn ==
    /\ Alive
    /\ ~shutdown.listening
    /\ shutdown' = [shutdown EXCEPT !.exited = "main returned"]
    /\ UNCHANGED <<storeVars, pipeVars, convVars, lockVars, calc>>

ShutdownNext ==
    \/ \E o \in Ops, req \in ShutdownInputs :
           Alive /\ shutdown.listening /\ OpBegin(o, req)
    \/ \E o \in Ops, res \in OpDownloads : Alive /\ OpDownloaded(o, res)
    \/ \E o \in Ops, how \in WriteOutcomes : Alive /\ OpPersist(o, how)
    \/ \E o \in Ops, how \in WriteOutcomes, crypto \in ShutdownReads :
           Alive /\ OpConvertBegin(o, how, crypto, RandB)
    \/ \E o \in Ops : Alive /\ OpParams(o)
    \/ \E o \in Ops, ff \in {"ok", "fail", "empty"}, at \in RunTimes :
           Alive /\ OpRun(o, ff, at)
    \/ \E o \in Ops, how \in WriteOutcomes : Alive /\ OpWrite(o, how)
    \/ \E o \in Ops : Alive /\ OpReturn(o)
    \/ ShSignal
    \/ ShPoolStop
    \/ ShStoreStop
    \/ ShAppShutdown
    \/ ShDrained
    \/ ShExit
    \/ MainReturn

\* The server from its start to the exit of its process.
SpecShutdown == Init /\ [][ShutdownNext]_vars

\* ---------------------------------------------------------- modifyImageLSB
\* The format argument of modifyImageLSB, as the encoders' own name of it.
MagicOf(format) == IF format = <<"j", "p", "e", "g">> THEN "jpeg" ELSE "png"
\* jpeg.Encode refuses an image of 65536 pixels or more a side; png.Encode
\* refuses only a side of 2^32 and above, which no decoded image has.
JpegLimit == 65536
EncodeErr(format, img) ==
    IF format = <<"j", "p", "e", "g">> /\ (img.w >= JpegLimit \/ img.h >= JpegLimit)
    THEN <<"j", "p", "e", "g", ":", " ", "i", "m", "a", "g", "e", " ", "i", "s", " ", "t", "o",
           "o", " ", "l", "a", "r", "g", "e", " ", "t", "o", " ", "e", "n", "c", "o", "d", "e">>
    ELSE NoError
\* jpeg.Encode and png.Encode: the bytes written are fixed by the format and the
\* pixels, so an encoded image is kept as its format and its pixels.
Encode(format, img) == [size |-> 2000, magic |-> MagicOf(format), img |-> img]
\* image.Decode: the pixels of a PNG or a JPEG, an error for other bytes.
Decode(data) ==
    IF data.magic \in {"png", "jpeg"} THEN [img |-> data.img, err |-> NoError]
    ELSE [img |-> NoImage, err |-> <<"i", "m", "a", "g", "e", ":", " ", "u", "n", "k", "n",
                                     "o", "w", "n", " ", "f", "o", "r", "m", "a", "t">>]
\* A PNG one pixel high and too wide for the JPEG encoder; of its pixels the
\* record keeps the two that the edit reaches.
WideImage ==
    [w |-> JpegLimit, h |-> 1,
     pix |-> [p \in {<<JpegLimit \div 2, 0>>, <<JpegLimit \div 2 + 1, 0>>} |-> <<7, 7, 7>>]]
\* The calls of modifyImageLSB the model makes: data and format.
LSBInputs ==
    {[data |-> Encode(<<"p", "n", "g">>, Bitmap(1, 1, 255)), format |-> <<"p", "n", "g">>],
     [data |-> Encode(<<"p", "n", "g">>, Bitmap(3, 1, 0)), format |-> <<"p", "n", "g">>],
     [data |-> Encode(<<"j", "p", "e", "g">>, Bitmap(2, 2, 128)), format |-> <<"j", "p", "e",
             "g">>],
     [data |-> Encode(<<"p", "n", "g">>, WideImage), format |-> <<"j", "p", "e", "g">>],
     [data |-> Encode(<<"p", "n", "g">>, Bitmap(1, 1, 255)), format |-> <<"w", "e", "b", "p">>],
     [data |-> Encode(<<"j", "p", "e", "g">>, Bitmap(1, 1, 255)), format |-> <<"j", "p", "g">>],
     [data |-> [size |-> 2000, magic |-> "other", img |-> NoImage], format |-> <<"p", "n", "g">>],
     [data |-> [size |-> 0, magic |-> "png", img |-> NoImage], format |-> <<"p", "n", "g">>]}

\* One channel: +1 when the bit drawn is 0 and v < 255, -1 when it is 1 and v > 0.
Tweak(v, bit) ==
    IF bit = 0 THEN (IF v < 255 THEN v + 1 ELSE v)
    ELSE (IF v > 0 THEN v - 1 ELSE v)
\* The pixels after the edit, bits being the results of mathrand.Intn(2) in the
\* order they are drawn.
LSBEdit(img, bits) ==
    LET cs == LSBCoords(img)
        at(p) == CHOOSE i \in 1..Len(cs) : cs[i] = p
    IN [img EXCEPT !.pix =
           [p \in DOMAIN img.pix |->
               IF \E i \in 1..Len(cs) : cs[i] = p
               THEN [c \in 1..3 |-> Tweak(img.pix[p][c], bits[3 * (at(p) - 1) + c])]
               ELSE img.pix[p]]]
\* The number of bits a call draws from the process-global generator.
LSBDrawCount(data, format) ==
    IF data.size = 0 \/ format \notin {<<"j", "p", "e", "g">>, <<"p", "n", "g">>} \/ Decode(data).err # NoError
       \/ Decode(data).img.w <= 0 \/ Decode(data).img.h <= 0
    THEN 0
    ELSE 3 * Len(LSBCoords(Decode(data).img))
\* modifyImageLSB(data, format): [data, err].
modifyImageLSB(data, format, bits) ==
    IF data.size = 0 THEN [data |-> data, err |-> <<"e", "m", "p", "t", "y", " ", "d", "a",
            "t", "a">>]
    ELSE IF format \notin {<<"j", "p", "e", "g">>, <<"p", "n", "g">>}
    THEN [data |-> data,
          err |-> <<"f", "o", "r", "m", "a", "t", " ", "n", "o", "t", " ", "s", "u", "p", "p",
                    "o", "r", "t", "e", "d", " ", "f", "o", "r", " ", "L", "S", "B", " ", "m",
                    "o", "d", "i", "f", "i", "c", "a", "t", "i", "o", "n", ":", " ">> \o format]
    ELSE IF Decode(data).err # NoError
    THEN [data |-> data, err |-> <<"d", "e", "c", "o", "d", "e", " ", "f", "a", "i", "l", "e",
                                   "d", ":", " ">> \o Decode(data).err]
    ELSE IF Decode(data).img.w <= 0 \/ Decode(data).img.h <= 0
    THEN [data |-> data, err |-> <<"i", "n", "v", "a", "l", "i", "d", " ", "d", "i", "m", "e",
                                   "n", "s", "i", "o", "n", "s">>]
    ELSE IF EncodeErr(format, Decode(data).img) # NoError
    THEN [data |-> data,
          err |-> (IF format = <<"j", "p", "e", "g">> THEN <<"j", "p", "e", "g", " ", "e", "n",
                  "c", "o", "d", "e", " ", "f", "a", "i", "l", "e", "d", ":", " ">>
                   ELSE <<"p", "n", "g", " ", "e", "n", "c", "o", "d", "e", " ", "f", "a", "i",
                          "l", "e", "d", ":", " ">>)
                      \o EncodeErr(format, Decode(data).img)]
    ELSE [data |-> Encode(format, LSBEdit(Decode(data).img, bits)), err |-> NoError]

\* A caller calls modifyImageLSB, and calls it again on the same data and format.
LSBCall(in, bits) ==
    /\ calc = NoCalc \/ (calc.fn = "modifyImageLSB" /\ Len(calc.outs) = 1 /\ calc.in = in)
    /\ calc' = [fn |-> "modifyImageLSB", in |-> in,
                outs |-> (IF calc = NoCalc THEN <<>> ELSE calc.outs)
                             \o <<modifyImageLSB(in.data, in.format, bits)>>]
    /\ globalReads' = globalReads + Len(bits)
    /\ UNCHANGED <<storeVars, pipeVars, ops, nano, lockVars, shutdown>>

LSBNext ==
    \E in \in LSBInputs : \E bits \in [1..LSBDrawCount(in.data, in.format) -> {0, 1}] :
        LSBCall(in, bits)

SpecLSB == Init /\ [][LSBNext]_vars

\* ---------------------------------------------------------------- GetFile
\* generateID(): the 16 bytes that crypto/rand returned to the k-th call that
\* drew an id no other call drew, and the id made of them.
IDBytes(k) == [i \in 1..16 |-> (37 * k + 11 * i) % 256]
IDString(k) == EncodeToString(IDBytes(k))
\* The ids the store can hold and one that no Store call ever returned.
NeverIssued == MaxObjects + 1
\* ts.files[id] is keyed by the id's string: the key a string stands for, 0 when
\* it is the string of no id.
IDStrings == [k \in 1..NeverIssued |-> IDString(k)]
KeyOf(s) ==
    IF \E k \in 1..NeverIssued : IDStrings[k] = s
    THEN CHOOSE k \in 1..NeverIssued : IDStrings[k] = s
    ELSE 0

\* Process: nova_url, and the :id parameter of a GET of it (the route is
\* /api/files/:id).
BaseURL == <<"h", "t", "t", "p", ":", "/", "/", "h">>
FilesRoute == <<"/", "a", "p", "i", "/", "f", "i", "l", "e", "s", "/">>
NovaURL(baseURL, fileID, extension) == baseURL \o FilesRoute \o fileID \o extension
Params(url) == SubSeq(url, Len(BaseURL \o FilesRoute) + 1, Len(url))

\* strings.LastIndex(s, c), counted from 1: 0 when c is not in s.
RECURSIVE LastIndexFrom(_, _, _)
LastIndexFrom(s, c, i) ==
    IF i < 1 THEN 0
    ELSE IF s[i] = c THEN i
    ELSE LastIndexFrom(s, c, i - 1)
LastIndex(s, c) == LastIndexFrom(s, c, Len(s))
\* GetFile: the id is the parameter up to its last dot, unless the dot is first.
FileIDWhole(fileIDWithExt) == fileIDWithExt
FileIDOf(fileIDWithExt) ==
    LET i == LastIndex(fileIDWithExt, ".")
    IN IF i > 1 THEN SubSeq(fileIDWithExt, 1, i - 1) ELSE fileIDWithExt

\* GetFile's answers.
NoAnswer == [status |-> 0, body |-> <<>>, file |-> NoPath]
Answer(status, body) == [status |-> status, body |-> body, file |-> NoPath]
SendsFile(path) == [status |-> 200, body |-> <<>>, file |-> path]
\* GetFile up to the return of tempStorage.Get: the answer, when it is settled
\* by then (NoAnswer: the handler goes on to os.Stat).
GetFileResponse(fileIDWithExt, get) ==
    IF fileIDWithExt = <<>> THEN Answer(400, <<"F", "i", "l", "e", " ", "I", "D", " ", "i",
            "s", " ", "r", "e", "q", "u", "i", "r", "e", "d">>)
    ELSE IF get.err # NoErr THEN Answer(404, <<"F", "i", "l", "e", " ", "n", "o", "t", " ",
            "f", "o", "u", "n", "d", " ", "o", "r", " ", "e", "x", "p", "i", "r", "e", "d">>)
    ELSE NoAnswer
\* c.SendFile(path) when the file is gone returns an error, which goes to the
\* ErrorHandler of main. The errors: a *fiber.Error of code 404 with fiber's
\* text, or the error of the open, which is not a *fiber.Error.
SendFileErrors == {"fiber", "open"}
SendFileErr(kind, path) ==
    IF kind = "fiber"
    THEN [fiber |-> TRUE, Code |-> 404,
          Message |-> <<"s", "e", "n", "d", "f", "i", "l", "e", ":", " ", "f", "i", "l", "e",
                        " ">>
                          \o path \o <<" ", "n", "o", "t", " ", "f", "o", "u", "n", "d">>]
    ELSE [fiber |-> FALSE, Code |-> 0,
          Message |-> <<"o", "p", "e", "n", " ">>
                          \o path \o <<":", " ", "n", "o", " ", "s", "u", "c", "h", " ", "f",
                                       "i", "l", "e", " ", "o", "r", " ", "d", "i", "r", "e",
                                       "c", "t", "o", "r", "y">>]
\* time.Now().Unix() of the instant NewTempStorage ran (2025-10-29 01:06:40 UTC).
StartUnix == 1761700000
\* time.Now().Unix() when the clock of the store shows minute t: sec seconds
\* of that minute have passed.
Seconds == {0, 59}
Unix(t, sec) == StartUnix + t * 60 + sec
\* encoding/json: a string, with the characters it escapes: the quote, the
\* backslash, the three HTML characters and the control characters (of which
\* the strings here can hold the line feed, the carriage return and the tab; any
\* other is written as a \u00xx escape).
JSONChar(c) ==
    CASE c = "\"" -> <<"\\", "\"">>
      [] c = "\\" -> <<"\\", "\\">>
      [] c = "\n" -> <<"\\", "n">>
      [] c = "\r" -> <<"\\", "r">>
      [] c = "\t" -> <<"\\", "t">>
      [] c = "<" -> <<"\\", "u", "0", "0", "3", "c">>
      [] c = ">" -> <<"\\", "u", "0", "0", "3", "e">>
      [] c = "&" -> <<"\\", "u", "0", "0", "2", "6">>
      [] OTHER -> <<c>>
RECURSIVE JSONBody(_)
JSONBody(s) == IF s = <<>> THEN <<>> ELSE JSONChar(Head(s)) \o JSONBody(Tail(s))
JSONString(s) == <<"\"">> \o JSONBody(s) \o <<"\"">>
\* main: the ErrorHandler of the app. It answers every error a handler returns
\* with the code and the message of a *fiber.Error, with 500 and "Internal
\* Server Error" for any other error, as the JSON of a fiber.Map (the keys in
\* alphabetical order) with the time.Now().Unix() it reads.
ErrorHandler(err, unix) ==
    LET code == IF err.fiber THEN err.Code ELSE 500
        message == IF err.fiber THEN err.Message ELSE <<"I", "n", "t", "e", "r", "n", "a", "l",
                " ", "S", "e", "r", "v", "e", "r", " ", "E", "r", "r", "o", "r">>
    IN Answer(code, <<"{", "\"", "e", "r", "r", "o", "r", "\"", ":">>
                        \o JSONString(message)
                        \o <<",", "\"", "s", "u", "c", "c", "e", "s", "s", "\"", ":", "f", "a",
                             "l", "s", "e", ",", "\"", "t", "i", "m", "e", "s", "t", "a", "m",
                             "p", "\"", ":">>
                        \o Itoa(unix) \o <<"}">>)

\* The extensions Process appends to the id, and the parameters clients send:
\* those of the URLs Process returns, an id alone, an id no call returned, an
\* extension alone, a name with two dots and the empty parameter.
Extensions == {getExtensionForFormat(f) : f \in {<<"o", "p", "u", "s">>, <<"j", "p", "g">>}}
FileParams ==
    {Params(NovaURL(BaseURL, IDString(k), e)) : k \in 1..NeverIssued, e \in Extensions}
        \cup {IDString(1), <<".", "o", "p", "u", "s">>, IDString(1) \o <<".", "t", "a", "r",
                ".", "g", "z">>, <<>>}

\* GetFile: fileID, the parameter without its extension, and the key of the map
\* it stands for, of each parameter.
ParamIDs == [p \in FileParams |-> [fileID |-> FileIDOf(p), key |-> KeyOf(FileIDOf(p))]]

\* What a request finds of the object with key k when it looks the key up: the
\* object was never put into the map ("absent"), its Store call has inserted it
\* ("inserted") or has returned its id as well ("issued"); and whether the
\* object's expiry has passed.
KnownAt(k) ==
    IF k \notin Objects THEN "absent"
    ELSE CASE call[k].pc = "returned" -> "issued"
           [] call[k].pc = "spawn" -> "inserted"
           [] OTHER -> "absent"
PastAt(k) == k \in Objects /\ call[k].pc \in {"spawn", "returned"}
                 /\ After(now, call[k].tf.ExpiresAt)

\* GET /api/files/:id, up to the return of tempStorage.Get (the lookup runs
\* under the read lock). The request records what it found at the lookup.
GetFileGet(fileIDWithExt) ==
    /\ ~panicked
    /\ calc.fn = "GetFile" => calc.pc = "done"
    /\ LET fileID == ParamIDs[fileIDWithExt].fileID
           key == ParamIDs[fileIDWithExt].key
           get == IF fileIDWithExt = <<>> THEN NoGet ELSE GetResult(key)
           resp == GetFileResponse(fileIDWithExt, get)
       IN /\ lastGet' = get
          /\ calc' = [fn |-> "GetFile", param |-> fileIDWithExt, fileID |-> fileID,
                      get |-> get,
                      known |-> KnownAt(key),
                      past |-> PastAt(key),
                      pc |-> IF resp = NoAnswer THEN "stat" ELSE "done",
                      resp |-> resp]
    /\ UNCHANGED <<pipeVars, convVars, lockVars, shutdown>>
    /\ UNCHANGED <<now, ttl, files, disk, call, sched, sweepers, tickReady, nextTick,
                   tickerOn, loopOn, stopClosed, panicked, rmMissed, warnings>>

\* GetFile: os.Stat(tf.Path); 404 when the file is not on the disk.
GetFileStat ==
    /\ ~panicked
    /\ calc.fn = "GetFile" /\ calc.pc = "stat"
    /\ calc' = IF ~Exists(disk, calc.get.tf.Path)
               THEN [calc EXCEPT !.pc = "done",
                                 !.resp = Answer(404, <<"F", "i", "l", "e", " ", "n", "o", "t",
                                         " ", "f", "o", "u", "n", "d", " ", "o", "n", " ", "d",
                                         "i", "s", "k">>)]
               ELSE [calc EXCEPT !.pc = "send"]
    /\ UNCHANGED <<storeVars, pipeVars, convVars, lockVars, shutdown>>

\* GetFile: c.SendFile(tf.Path); the error it returns when the file is gone is
\* answered by the ErrorHandler of main, sec seconds into the minute.
GetFileSend(kind, sec) ==
    /\ ~panicked
    /\ calc.fn = "GetFile" /\ calc.pc = "send"
    /\ calc' = [calc EXCEPT !.pc = "done",
                            !.resp = IF Exists(disk, calc.get.tf.Path)
                                     THEN SendsFile(calc.get.tf.Path)
                                     ELSE ErrorHandler(SendFileErr(kind, calc.get.tf.Path),
                                                       Unix(now, sec))]
    /\ UNCHANGED <<storeVars, pipeVars, convVars, lockVars, shutdown>>

\* The store behind the handler: Process's Store calls, the eviction paths and
\* GetFile's steps, with a TTL of one minute and a sweep that keeps up with the
\* clock (a scheduled deletion may still wake as late as it likes).
FileInputs == {in \in StoreInputs : in.origKind = "distinct"}
FilesInit == Init /\ ttl = NormTTL(1)
FilesNext ==
    \/ \E k \in Objects, in \in FileInputs : StoreBegin(k, in, TRUE)
    \/ \E k \in Objects : StoreInsert(k)
    \/ \E k \in Objects : StoreSpawn(k)
    \/ \E p \in FileParams : GetFileGet(p)
    \/ GetFileStat
    \/ \E kind \in SendFileErrors, sec \in Seconds : GetFileSend(kind, sec)
    \/ \E k \in Objects : SchedUnmap(k)
    \/ \E k \in Objects : SchedRmFile(k)
    \/ \E k \in Objects : SchedRmOrig(k)
    \/ AdvanceTimePrompt
    \/ LoopTick
    \/ LoopSweep
    \/ \E g \in sweepers : SweepRemove(g)

SpecFiles == FilesInit /\ [][FilesNext]_vars

\* ------------------------------------------------- delay and crop amounts
\* nonce.Timestamp is time.Now().UnixNano(): the instants of the invocations,
\* the first instant of the clock and the last an int64 holds.
MaxInt64 == <<65535, 65535, 65535, 32767>>
\* The nanoseconds after the first invocation taken as timestamps.
MaxStamp == 29
Timestamps == {UnixNano(n) : n \in 0..MaxStamp} \cup {Zero64, MaxInt64}
\* localRand.Intn(n)
Intn(n) == 0..(n - 1)

\* AudioConverter.ConvertWithScriptTechniques: delayMs, from localRand.Intn(50)
\* and the timestamp.
AudioDelayUnclamped(draw, t) == 1 + draw + DivMod64(t, 10).r
AudioDelay(draw, t) ==
    LET delayMs == 1 + draw + DivMod64(t, 10).r
    IN IF delayMs > 50 THEN 50 ELSE delayMs
\* ImageConverter and VideoConverter, ConvertWithScriptTechniques: cropPixels,
\* from localRand.Intn(2) and the timestamp.
CropPixels(draw, t) ==
    LET cropVariation == DivMod64(t, 3).r
        cropPixels == (1 + draw + cropVariation) % 3
    IN IF cropPixels = 0 THEN 1 ELSE cropPixels

\* The audio converter computes its delay.
ParamDelay(draw, t) ==
    /\ calc' = [fn |-> "delayMs", kind |-> "audio", draw |-> draw, t |-> t,
                value |-> AudioDelay(draw, t)]
    /\ UNCHANGED <<storeVars, pipeVars, convVars, lockVars, shutdown>>
\* The image or the video converter computes its crop.
ParamCrop(kind, draw, t) ==
    /\ calc' = [fn |-> "cropPixels", kind |-> kind, draw |-> draw, t |-> t,
                value |-> CropPixels(draw, t)]
    /\ UNCHANGED <<storeVars, pipeVars, convVars, lockVars, shutdown>>

ParamsNext ==
    \/ \E draw \in Intn(50), t \in Timestamps : ParamDelay(draw, t)
    \/ \E kind \in {"image", "video"}, draw \in Intn(2), t \in Timestamps :
           ParamCrop(kind, draw, t)

SpecParams == Init /\ [][ParamsNext]_vars

\* ------------------------------------------------ the level-based converters
\* AudioConverter.Convert, ImageConverter.Convert and VideoConverter.Convert take
\* an anti-fingerprinting level. No handler of the program calls them (Process
\* calls ConvertWithScriptTechniques only); a caller gets what follows.
Levels == {"none", "basic", "moderate", "paranoid", ""}
\* getRandomizedParams: the mathrand.Intn calls it makes for a level, every one
\* of them on the process-global generator.
getRandomizedParams(kind, level) ==
    CASE kind = "audio" ->
             (CASE level = "basic" -> 3 [] level = "moderate" -> 4
                [] level = "paranoid" -> 5 [] OTHER -> 0)
      [] kind = "image" ->
             (CASE level = "basic" -> 3 [] level = "moderate" -> 6
                [] level = "paranoid" -> 7 [] OTHER -> 0)
      [] kind = "video" ->
             (CASE level = "basic" -> 4 [] level = "moderate" -> 8
                [] level = "paranoid" -> 9 [] OTHER -> 0)
\* VideoConverter.Convert re-encodes the audio track at 128+mathrand.Intn(16) kbps
\* for every level but "none" and "basic".
AudioBitrateDraws(level) == IF level \in {"none", "basic"} THEN 0 ELSE 1
\* getVideoBitrate: the kbps ffprobe reports, 2000 when it fails or prints no
\* number.
getVideoBitrate(probe) == IF probe.err THEN 2000 ELSE probe.bps \div 1000
ProbeOutcomes == {[err |-> TRUE, bps |-> 0], [err |-> FALSE, bps |-> 9000],
                  [err |-> FALSE, bps |-> 2500000]}
\* The percentages VideoConverter.getRandomizedParams draws for the variation of
\* the bitrate, and the variation: int(originalBitrate * percent / 100).
VariationPercents(level) ==
    CASE level = "basic" -> 5..10
      [] level = "moderate" -> 8..12
      [] level = "paranoid" -> 10..15
      [] OTHER -> {0}
BitrateVariation(originalBitrate, percent) == (originalBitrate * percent) \div 100
\* mathrand.Intn(bitrateVariation*2) panics when its argument is not positive.
IntnPanics(level, originalBitrate, percent) ==
    /\ level \in {"basic", "moderate", "paranoid"}
    /\ BitrateVariation(originalBitrate, percent) * 2 <= 0

\* What callers hand to Convert.
ConvertInputs ==
    {[kind |-> "audio", data |-> Mp3Body, outputPath |-> <<"o", "1", ".", "o", "p", "u", "s">>],
     [kind |-> "audio", data |-> NoData, outputPath |-> <<"o", "1", ".", "o", "p", "u", "s">>],
     [kind |-> "image", data |-> PngBody, outputPath |-> <<"o", "1", ".", "j", "p", "g">>],
     [kind |-> "image", data |-> Mp3Body, outputPath |-> <<"o", "1", ".", "p", "n", "g">>],
     [kind |-> "video", data |-> Mp4Body, outputPath |-> <<"o", "1", ".", "m", "p", "4">>]}
\* The calls of the global generator after which no further Convert begins.
MaxGlobalReads == 12

\* Convert up to the start of its first child process: the check of the input
\* and, for audio and image, the parameters of the level; the video converter
\* starts ffprobe first.
ConvertStart(in, level) ==
    /\ calc = NoCalc \/ (calc.fn = "Convert" /\ calc.pc \in {"done", "panic"})
    /\ globalReads < MaxGlobalReads
    /\ LET c == [fn |-> "Convert", kind |-> in.kind, data |-> in.data, level |-> level,
                 outputPath |-> in.outputPath, pc |-> "run", err |-> NoError]
       IN IF in.data.size = 0
          THEN /\ calc' = [c EXCEPT !.pc = "done", !.err = <<"e", "m", "p", "t", "y", " ", "i",
                  "n", "p", "u", "t", " ", "d", "a", "t", "a">>]
               /\ UNCHANGED globalReads
          ELSE IF in.kind = "video"
          THEN /\ calc' = [c EXCEPT !.pc = "probe"]
               /\ UNCHANGED globalReads
          ELSE /\ calc' = c
               /\ globalReads' = globalReads + getRandomizedParams(in.kind, level)
    /\ UNCHANGED <<storeVars, pipeVars, ops, nano, lockVars, shutdown>>

\* VideoConverter.Convert: ffprobe has ended; getRandomizedParams draws the
\* percentage and panics in its second draw when the variation is zero.
ConvertProbe(probe, percent) ==
    /\ calc.fn = "Convert" /\ calc.pc = "probe"
    /\ percent \in VariationPercents(calc.level)
    /\ IF IntnPanics(calc.level, getVideoBitrate(probe), percent)
       THEN /\ calc' = [calc EXCEPT !.pc = "panic"]
            /\ globalReads' = globalReads + 1
       ELSE /\ calc' = [calc EXCEPT !.pc = "run"]
            /\ globalReads' = globalReads + getRandomizedParams("video", calc.level)
                                  + AudioBitrateDraws(calc.level)
    /\ UNCHANGED <<storeVars, pipeVars, ops, nano, lockVars, shutdown>>

\* Convert: cmd.Run() has returned.
ConvertFfmpeg(ff) ==
    /\ calc.fn = "Convert" /\ calc.pc = "run"
    /\ LET run == RunFfmpeg(ff, 0, 0, 1)
       IN calc' = IF run.err # NoError
                  THEN [calc EXCEPT !.pc = "done", !.err = run.err]
                  ELSE [calc EXCEPT !.pc = "write"]
    /\ UNCHANGED <<storeVars, pipeVars, convVars, lockVars, shutdown>>

\* Convert: os.WriteFile of ffmpeg's output, for an image under the extension
\* of the detected format (.jpg when the format is none of png, jpeg, webp).
ConvertOutput(how) ==
    /\ calc.fn = "Convert" /\ calc.pc = "write"
    /\ LET final == FinalPath(calc.kind, calc.data, calc.outputPath)
       IN /\ disk' = WriteFileTry(disk, final, calc.data.size, how)
          /\ calc' = [calc EXCEPT !.pc = "done",
                          !.err = IF how = "ok" THEN NoError
                                  ELSE <<"f", "a", "i", "l", "e", "d", " ", "t", "o", " ", "w",
                                         "r", "i", "t", "e", " ", "o", "u", "t", "p", "u", "t",
                                         " ", "f", "i", "l", "e", ":", " ">>
                                           \o WriteFileErr(final, how)]
    /\ UNCHANGED <<now, ttl, files, call, sched, sweepers, tickReady, nextTick, tickerOn,
                   loopOn, stopClosed, panicked, lastGet, rmMissed, warnings,
                   pipeVars, convVars, lockVars, shutdown>>

LevelsNext ==
    \/ \E in \in ConvertInputs, level \in Levels : ConvertStart(in, level)
    \/ \E probe \in ProbeOutcomes, percent \in 0..15 : ConvertProbe(probe, percent)
    \/ \E ff \in {"ok", "fail", "empty"} : ConvertFfmpeg(ff)
    \/ \E how \in WriteOutcomes : ConvertOutput(how)

SpecLevels == Init /\ [][LevelsNext]_vars


\* ------------------------------------------------------------------ claims
\* The k-th Store call has returned its id.
Returned(k) == call[k].pc = "returned"
\* The map entry of the k-th object is gone and so are its files.
Evicted(k) ==
    /\ call[k].tf.ID \notin DOMAIN files
    /\ ~Exists(disk, call[k].tf.Path)
    /\ call[k].tf.OriginalPath # NoPath => ~Exists(disk, call[k].tf.OriginalPath)
\* The k-th object is in the map, as stored, and its files are on the disk.
Intact(k) ==
    /\ call[k].tf.ID \in DOMAIN files
    /\ files[call[k].tf.ID] = call[k].tf
    /\ Exists(disk, call[k].tf.Path)
    /\ call[k].tf.OriginalPath # NoPath => Exists(disk, call[k].tf.OriginalPath)

\* C1: a Get of a stored id before its expiry returns exactly the object stored
\* (path, source path, kind, expiresAt); a Get after the TTL has elapsed returns
\* not-found whether or not the entry or the files have been removed; a Get never
\* observes an entry before the Store's insert.
C1_StoreThenGet ==
    \A k \in Objects :
        lastGet.id = k =>
            /\ (Returned(k) /\ now < call[k].tf.ExpiresAt)
                   => (lastGet.err = NoErr /\ lastGet.tf = call[k].tf)
            /\ (Returned(k) /\ now > call[k].tf.ExpiresAt)
                   => (lastGet.err # NoErr /\ lastGet.tf = NoFile)
            /\ call[k].pc \in {"idle", "built", "failed"}
                   => (lastGet.err # NoErr /\ lastGet.tf = NoFile)

\* A Get after the TTL has elapsed of an entry that is still in the map with its
\* files on the disk.
C1_Witness ==
    \E k \in Objects :
        /\ lastGet.id = k
        /\ Returned(k)
        /\ now > call[k].tf.ExpiresAt
        /\ k \in DOMAIN files
        /\ Exists(disk, call[k].tf.Path)
        /\ lastGet.err = "file expired"

\* C2: while the process keeps running, every object a Store has registered is
\* eventually removed from the map and has its artifact and its source file
\* deleted, under fair scheduling, whatever the sweep and Stop do.
C2_EventuallyEvicted ==
    \A k \in Objects : Returned(k) ~> (panicked \/ Evicted(k))

\* An object evicted by its scheduled deletion after Stop has halted the sweep.
C2_Witness ==
    \E k \in Objects :
        /\ Returned(k)
        /\ Evicted(k)
        /\ sched[k].pc = "done"
        /\ ~loopOn
        /\ ~panicked
        /\ "sched" \notin rmMissed
        /\ HasDistinctOriginal(call[k].tf.Path, call[k].tf.OriginalPath)

Live(j) == Returned(j) /\ ~panicked /\ ~Expired(call[j].tf, now) /\ sched[j].pc = "sleep"

\* C4: whichever of the scheduled deletion and the sweep comes second on an id,
\* no removal is reported as an error, and every object that is still live keeps
\* its map entry and its files.
C4_EvictionIdempotent ==
    /\ warnings = 0
    /\ \A j \in Objects : Live(j) => Intact(j)

\* Both paths have acted on one object, each finding a file the other had
\* removed, while another object is live.
C4_Witness ==
    \E k, j \in Objects :
        /\ k # j
        /\ Returned(k)
        /\ sched[k].pc = "done"
        /\ rmMissed = {"sched", "sweep"}
        /\ Live(j)
        /\ Intact(j)

\* The error of an attempt is one of the structural failures: a bad HTTP status, an
\* oversize, empty or too small payload, a failed container validation.
StructuralSites == {"status", "tooLarge", "empty", "tooSmall", "video"}
\* The error of an attempt comes from the network: the exchange or the body read.
TransientSites ==
    {"do", "pooledIncomplete", "pooledRead", "directRead", "directIncomplete", "unknownRead"}

\* The current invocation has returned a failure.
Failed == proc.stage = "done" /\ ~proc.ok

\* C5: when an invocation returns a failure, none of the scratch files it created
\* (the original, the converter's output under the name the converter wrote it,
\* the video converter's temporary input) is left on the disk.
C5_FailureLeavesNoScratch ==
    Failed => \A p \in proc.made : ~Exists(disk, p)

\* C6: the stages of an invocation run in the order detect, download, persist,
\* transform, verify, store, return; Store is called only after the five stages
\* before it; a failed invocation has registered nothing, a successful one has
\* run every stage and registered its object.
C6_StagesInOrder ==
    LET order == <<"detect", "download", "persist", "transform", "verify", "store",
                   "return">>
    IN /\ Len(proc.trace) <= Len(order)
       /\ \A i \in 1..Len(proc.trace) : proc.trace[i] = order[i]
       /\ \A k \in Objects :
              call[k].pc # "idle" =>
                  \/ k < proc.k
                  \/ k = proc.k /\ Len(proc.trace) >= 6
       /\ Failed => (proc.k \notin DOMAIN files /\ ~Returned(proc.k))
       /\ (proc.stage = "done" /\ proc.ok) =>
              (proc.trace = order /\ Returned(proc.k) /\ proc.fileID = call[proc.k].tf.ID)

\* An invocation that failed at its verify stage after an earlier one succeeded.
C6_Witness ==
    /\ Failed
    /\ proc.k = 2
    /\ Len(proc.trace) = 5
    /\ proc.message = <<"O", "u", "t", "p", "u", "t", " ", "f", "i", "l", "e", " ", "w", "a",
                        "s", " ", "n", "o", "t", " ", "c", "r", "e", "a", "t", "e", "d">>
    /\ Returned(1)
    /\ 1 \in DOMAIN files

\* C7: once the deadline of an invocation has expired, no download attempt and no
\* backoff wait is started; an invocation whose deadline expired fails with a
\* timeout error and registers nothing.
C7_DeadlineStopsWork ==
    /\ \A i \in 1..Len(dlLog) : dlLog[i].at < dl.deadline
    /\ (proc.stage = "done" /\ Len(proc.trace) >= 2 /\ CtxExpired(clock, dl.deadline)) =>
           /\ ~proc.ok
           /\ ~Returned(proc.k)
           /\ \/ Contains(ToLower(proc.message), <<"d", "e", "a", "d", "l", "i", "n", "e", " ",
                   "e", "x", "c", "e", "e", "d", "e", "d">>)
              \/ Contains(ToLower(proc.message), <<"t", "i", "m", "e", "o", "u", "t">>)

\* C8: a Download call makes at most 3 attempts; after attempt k < 3 it waits k
\* times the base delay before attempt k + 1 and it does not wait after attempt
\* 3; when all 3 attempts fail with transient errors it returns the
\* exhausted-retries error wrapping the error of attempt 3.
C8_BoundedRetryWithBackoff ==
    /\ Len(dlLog) <= 5
    /\ \A i \in 1..Len(dlLog) :
           IF i % 2 = 1
           THEN dlLog[i].ev = "attempt" /\ dlLog[i].n = (i + 1) \div 2
           ELSE /\ dlLog[i].ev = "sleep"
                /\ dlLog[i].n = (i \div 2) * BaseDelay
                /\ i < Len(dlLog) => dlLog[i + 1].at = dlLog[i].at + (i \div 2) * BaseDelay
    /\ (dl.pc = "done" /\ Len(dlLog) = 5 /\ isRetryableError(dlLog[5].err)) =>
           dl.err = <<"d", "o", "w", "n", "l", "o", "a", "d", " ", "f", "a", "i", "l", "e",
                      "d", " ", "a", "f", "t", "e", "r", " ", "3", " ", "a", "t", "t", "e",
                      "m", "p", "t", "s", ":", " ">> \o dlLog[5].err

\* A call that gave up after three transient failures and waits of 1 and 2.
C8_Witness ==
    /\ dl.pc = "done"
    /\ Len(dlLog) = 5
    /\ dlLog[2].n = 1
    /\ dlLog[4].n = 2
    /\ dlLog[5].site = "do"
    /\ dl.err = <<"d", "o", "w", "n", "l", "o", "a", "d", " ", "f", "a", "i", "l", "e", "d",
                  " ", "a", "f", "t", "e", "r", " ", "3", " ", "a", "t", "t", "e", "m", "p",
                  "t", "s", ":", " ">> \o dlLog[5].err

\* C9 as stated: an attempt that fails with a structural error ends the call
\* with that error, and in such a call exactly one attempt is made and no backoff
\* wait occurs.
C9_StructuralMeansOneAttempt ==
    \A i \in 1..Len(dlLog) :
        (dlLog[i].ev = "attempt" /\ dlLog[i].site \in StructuralSites) =>
            /\ dl.pc = "done" /\ dl.err = dlLog[i].err
            /\ Len(dlLog) = 1

\* C9: an attempt that fails with a structural error is the last thing the call
\* does, and the call returns that error: no attempt and no backoff wait follows
\* it. A backoff wait follows only an attempt whose error came from the network,
\* so every attempt before a structural failure failed with a transient error;
\* a structural failure of the first attempt leaves a call of exactly one attempt
\* and no wait.
C9_StructuralNotRetried ==
    /\ \A i \in 1..Len(dlLog) :
           (dlLog[i].ev = "attempt" /\ dlLog[i].site \in StructuralSites) =>
               /\ i = Len(dlLog) /\ dl.pc = "done" /\ dl.err = dlLog[i].err
               /\ \A j \in 1..(i - 1) :
                      dlLog[j].ev = "attempt" => dlLog[j].site \in TransientSites
               /\ dlLog[i].n = 1 =>
                      (Len(dlLog) = 1 /\ \A j \in 1..Len(dlLog) : dlLog[j].ev # "sleep")
    /\ \A i \in 2..Len(dlLog) :
           dlLog[i].ev = "sleep" =>
               (dlLog[i - 1].ev = "attempt" /\ dlLog[i - 1].site \in TransientSites)

\* A call ended by an HTTP 503 on its second attempt, after a first attempt that
\* failed in the exchange and one backoff wait.
C9_Witness ==
    /\ dl.pc = "done"
    /\ Len(dlLog) = 3
    /\ dlLog[1].site = "do"
    /\ dlLog[2].ev = "sleep"
    /\ dlLog[3].site = "status"
    /\ dlLog[3].n = 2
    /\ dl.err = <<"d", "o", "w", "n", "l", "o", "a", "d", " ", "f", "a", "i", "l", "e", "d",
                  ":", " ", "H", "T", "T", "P", " ", "5", "0", "3">>

\* C10: an attempt whose body read ended in an unexpected EOF, with attempts
\* left, is followed by a backoff wait and another attempt.
C10_UnexpectedEOFRetried ==
    \A i \in 1..Len(dlLog) :
        (/\ dlLog[i].ev = "attempt"
         /\ dlLog[i].readErr = MsgUnexpectedEOF
         /\ dlLog[i].n < MaxAttempts)
        => ~(i = Len(dlLog) /\ dl.pc = "done")

\* The i-th entry of the log is an attempt that met a body cut short of its
\* declared length by the server closing the connection.
TruncatedAt(i) ==
    /\ dlLog[i].ev = "attempt"
    /\ dlLog[i].length > 0
    /\ dlLog[i].sent < dlLog[i].length
    /\ dlLog[i].readErr = MsgUnexpectedEOF

\* C11: when attempt 1 fails with a connection reset and attempt 2 succeeds, the
\* call returns the payload of attempt 2 and no error; every attempt that meets a
\* body truncated below its declared length fails with an incomplete-transfer
\* error, and a call makes at most 3 attempts.
C11_ResetThenSuccessTruncationFails ==
    /\ (/\ dl.pc = "done"
        /\ Len(dlLog) = 3
        /\ Contains(dlLog[1].err, <<"c", "o", "n", "n", "e", "c", "t", "i", "o", "n", " ", "r",
                                    "e", "s", "e", "t">>)
        /\ dlLog[3].site = "ok")
       => (dl.err = NoError /\ dl.data.size = dlLog[3].size /\ dl.data.size > 0)
    /\ \A i \in 1..Len(dlLog) :
           TruncatedAt(i) => HasPrefix(dlLog[i].err, <<"i", "n", "c", "o", "m", "p", "l", "e",
                   "t", "e", " ", "d", "o", "w", "n", "l", "o", "a", "d">>)
    /\ Len(dlLog) <= 2 * MaxAttempts - 1

\* Download was called with an empty URL or one of another scheme.
BadScheme(url) == url = <<>> \/ (~HasPrefix(url, <<"h", "t", "t", "p", ":", "/", "/">>) /\ ~HasPrefix(url, <<
        "h", "t", "t", "p", "s", ":", "/", "/">>))

\* C12: a Download of an empty URL or of a URL that starts with neither http://
\* nor https:// has returned an error at once: no attempt, no backoff wait, no
\* time spent.
C12_BadSchemeNoNetwork ==
    (dl.pc # "idle" /\ BadScheme(dl.url)) =>
        (dl.pc = "done" /\ dl.err # NoError /\ dlLog = <<>> /\ clock = 0)

\* A call with an ftp URL that returned the invalid-scheme error.
C12_Witness ==
    /\ dl.pc = "done"
    /\ dl.url = <<"f", "t", "p", ":", "/", "/", "h", "/", "a", ".", "o", "g", "g">>
    /\ dl.err = <<"i", "n", "v", "a", "l", "i", "d", " ", "U", "R", "L", " ", "s", "c", "h",
                  "e", "m", "e", ":", " ", "m", "u", "s", "t", " ", "b", "e", " ", "h", "t",
                  "t", "p", ":", "/", "/", " ", "o", "r", " ", "h", "t", "t", "p", "s", ":",
                  "/", "/">>
    /\ dlLog = <<>>

\* The i-th entry of the log is an attempt that got a 200 answer and went on to
\* the body.
ReachedBody(i) ==
    dlLog[i].ev = "attempt" /\ dlLog[i].site \notin {"request", "do", "status"}
\* The i-th entry is an attempt whose answer carried a whole body of n bytes,
\* its length declared or not.
WholeBody(i, n) ==
    /\ ReachedBody(i)
    /\ dlLog[i].sent = n
    /\ dlLog[i].length \in {-1, n}

\* C13: with the ceiling maxSize, an attempt that meets a body of exactly maxSize
\* bytes does not fail as oversize (and succeeds with maxSize bytes when no other
\* validation applies), an attempt that meets maxSize + 1 bytes fails with the
\* oversize error, a declared length above maxSize is rejected with no body byte
\* read, and no attempt reads more than maxSize + 1 body bytes.
C13_CeilingBoundary ==
    \A i \in 1..Len(dlLog) :
        /\ WholeBody(i, maxSize) =>
               /\ dlLog[i].site # "tooLarge"
               /\ ~isVideoURL(dl.url) => (dlLog[i].site = "ok" /\ dlLog[i].size = maxSize)
        /\ WholeBody(i, maxSize + 1) =>
               (dlLog[i].site = "tooLarge" /\ HasPrefix(dlLog[i].err, <<"f", "i", "l", "e",
                       " ", "t", "o", "o", " ", "l", "a", "r", "g", "e", ":", " ">>))
        /\ (ReachedBody(i) /\ dlLog[i].length > maxSize) =>
               (dlLog[i].site = "tooLarge" /\ dlLog[i].read = 0)
        /\ dlLog[i].ev = "attempt" => dlLog[i].read <= maxSize + 1
        /\ dlLog[i].site = "ok" => dlLog[i].size <= maxSize

\* An attempt that met an undeclared body far above the ceiling, stopped reading
\* after maxSize + 1 bytes and failed as oversize.
C13_Witness ==
    /\ dl.pc = "done"
    /\ Len(dlLog) = 1
    /\ dlLog[1].length = -1
    /\ dlLog[1].sent > maxSize + 1
    /\ dlLog[1].read = maxSize + 1
    /\ dlLog[1].site = "tooLarge"

\* C14 as stated: an attempt without a declared length whose read reached the
\* ceiling maxSize is never returned as a success.
C14_ReachingCeilingRejected ==
    \A i \in 1..Len(dlLog) :
        (dlLog[i].ev = "attempt" /\ dlLog[i].length < 0 /\ dlLog[i].read >= maxSize)
            => dlLog[i].site # "ok"

\* C14, amended: an attempt without a declared length reads at most maxSize + 1
\* bytes and fails as too large exactly when it read maxSize + 1 bytes without a
\* read error; a whole body of exactly maxSize bytes is not too large and is
\* returned when no other validation fails.
C14_OverCeilingRejected ==
    \A i \in 1..Len(dlLog) :
        (ReachedBody(i) /\ dlLog[i].length < 0) =>
            /\ dlLog[i].read <= maxSize + 1
            /\ dlLog[i].site = "tooLarge" <=>
                   (dlLog[i].read = maxSize + 1 /\ dlLog[i].readErr = NoError)
            /\ WholeBody(i, maxSize) => (dlLog[i].site = "ok" /\ dlLog[i].size = maxSize)

\* An undeclared body of exactly maxSize bytes returned as a success.
C14_Witness ==
    /\ dl.pc = "done"
    /\ dl.err = NoError
    /\ Len(dlLog) = 1
    /\ dlLog[1].length = -1
    /\ dlLog[1].site = "ok"
    /\ dl.data.size = maxSize

\* C15: an attempt whose answer declared a length L > 0 returns exactly L bytes
\* when it succeeds; an attempt that read fewer than L bytes is never a success,
\* and when the body ended before L bytes it fails with the incomplete-transfer
\* error, on the pooled and on the direct read path.
C15_DeclaredLengthExact ==
    \A i \in 1..Len(dlLog) :
        (ReachedBody(i) /\ dlLog[i].length > 0 /\ dlLog[i].length <= maxSize) =>
            /\ dlLog[i].site = "ok" => dlLog[i].size = dlLog[i].length
            /\ dlLog[i].read < dlLog[i].length => dlLog[i].site # "ok"
            /\ TruncatedAt(i) =>
                   dlLog[i].site \in {"pooledIncomplete", "directIncomplete"}

\* C16: a Download of a video URL that returned without error returned bytes
\* that pass the structural validation, whether or not the length was declared.
C16_VideoSuccessValidated ==
    (dl.pc = "done" /\ dl.err = NoError /\ isVideoURL(dl.url)) =>
        validateVideoData(dl.data) = NoError

\* C17: a Download that returned without error returned at least MinMediaSize
\* bytes; an attempt that received a whole body of fewer bytes, or none, failed
\* with the empty or too-small error, was the last of its call, and its error is
\* the error of the call.
C17_MinimumSize ==
    /\ (dl.pc = "done" /\ dl.err = NoError) => dl.data.size >= MinMediaSize
    /\ \A i \in 1..Len(dlLog) :
           /\ dlLog[i].site = "ok" => dlLog[i].size >= MinMediaSize
           /\ (\/ \E n \in 0..(MinMediaSize - 1) : WholeBody(i, n)
               \/ ReachedBody(i) /\ dlLog[i].length = 0) =>
                  /\ dlLog[i].site \in {"empty", "tooSmall"}
                  /\ i = Len(dlLog)
                  /\ dl.pc = "done"
                  /\ dl.err = dlLog[i].err

\* A call ended on its second attempt by a body of 50 bytes, after a first
\* attempt that failed in the exchange.
C17_Witness ==
    /\ dl.pc = "done"
    /\ Len(dlLog) = 3
    /\ dlLog[1].site = "do"
    /\ dlLog[3].site = "tooSmall"
    /\ dlLog[3].sent = 50
    /\ dl.err = <<"f", "i", "l", "e", " ", "t", "o", "o", " ", "s", "m", "a", "l", "l", ":",
                  " ", "5", "0", " ", "b", "y", "t", "e", "s", " ", "(", "l", "i", "k", "e",
                  "l", "y", " ", "c", "o", "r", "r", "u", "p", "t", "e", "d", " ", "o", "r",
                  " ", "e", "m", "p", "t", "y", ")">>

\* C18: a Get of a registered object at the instant now = expiresAt, or at any
\* later instant, returns not-found and no object.
C18_GetOnlyBeforeExpiry ==
    \A k \in Objects :
        (lastGet.id = k /\ Returned(k) /\ now >= call[k].tf.ExpiresAt) =>
            (lastGet.err # NoErr /\ lastGet.tf = NoFile)

\* C19: a Get changes nothing of the store (map, files, clock, goroutines) and
\* returns every entry that is present and not expired as it is; no step ever
\* modifies an entry of the map, and an entry enters the map with expiresAt =
\* createdAt + ttl.
C19_GetLeavesStoreUnchanged ==
    [][/\ lastGet' # NoGet =>
              /\ UNCHANGED <<now, ttl, files, disk, call, sched, sweepers, tickReady,
                             nextTick, tickerOn, loopOn, stopClosed, panicked, rmMissed,
                             warnings>>
              /\ (lastGet'.id \in DOMAIN files /\ ~Expired(files[lastGet'.id], now)) =>
                     (lastGet'.err = NoErr /\ lastGet'.tf = files[lastGet'.id])
       /\ \A id \in DOMAIN files \cap DOMAIN files' : files'[id] = files[id]
       /\ \A id \in DOMAIN files' \ DOMAIN files :
              /\ files'[id].ExpiresAt = files'[id].CreatedAt + ttl
              /\ files'[id].CreatedAt <= now
       /\ ttl' = ttl]_vars

\* A Get has just returned an object one minute before its expiry, and the entry
\* is the one Store made.
C19_Witness ==
    \E k \in Objects :
        /\ lastGet.id = k
        /\ lastGet.err = NoErr
        /\ lastGet.tf = call[k].tf
        /\ files[k] = call[k].tf
        /\ now + 1 = call[k].tf.ExpiresAt

\* C20: while the process runs, until the expiresAt of a registered object its
\* map entry and its files are in place; its scheduled deletion is still asleep
\* and wakes no earlier than expiresAt.
C20_NothingRemovedBeforeExpiry ==
    \A k \in Objects :
        (Returned(k) /\ ~panicked /\ now < call[k].tf.ExpiresAt) =>
            /\ Intact(k)
            /\ sched[k].pc = "sleep"
            /\ sched[k].wakeAt >= call[k].tf.ExpiresAt

\* One object has been evicted while another, stored later, is before its
\* expiry and intact.
C20_Witness ==
    \E k, j \in Objects :
        /\ k # j
        /\ Returned(j)
        /\ Evicted(j)
        /\ Returned(k)
        /\ ~panicked
        /\ now < call[k].tf.ExpiresAt
        /\ Intact(k)

\* C21: a Store call whose artifact cannot be stat'd fails, and the store is as
\* it was: no entry is inserted, no deletion is scheduled and no file is deleted,
\* by the failing call or after it.
C21_StatFailureLeavesStore ==
    [][\A k \in Objects :
          /\ (call[k].pc = "idle" /\ call'[k].pc # "idle" /\ ~Exists(disk', OutPath(k)))
                => /\ call'[k].pc = "failed"
                   /\ files' = files
                   /\ sched' = sched
                   /\ sweepers' = sweepers
                   /\ disk' = disk
          /\ call[k].pc = "failed"
                => /\ call'[k].pc = "failed"
                   /\ sched'[k] = NoSched
                   /\ \A id \in DOMAIN files' : files'[id].Path # OutPath(k)]_vars
\* A Store call has failed on a missing artifact beside one that stored its object.
C21_Witness ==
    \E k, j \in Objects :
        /\ call[k].pc = "failed"
        /\ ~Exists(disk, OutPath(k))
        /\ sched[k] = NoSched
        /\ call[j].pc = "returned"
        /\ call[j].tf.ID \in DOMAIN files

\* C23: Stop() halts the periodic sweep: once Stop has returned the loop takes
\* no further tick, so no sweep begins (a sweep whose tick was taken before Stop
\* may finish). The call itself removes no map entry, deletes no file and cancels no
\* scheduled deletion.
C23_StopHaltsSweep ==
    [][/\ stopClosed => ~LoopTick
       /\ (~stopClosed /\ stopClosed')
             => (files' = files /\ disk' = disk /\ sched' = sched)]_vars

\* C24: whatever TTL the store was constructed with, the interval of the
\* periodic sweep is strictly shorter than that TTL.
C24_SweepShorterThanTTL == SweepInterval < ttl

\* The k-th Store call has drawn an id (it got past os.Stat).
HasID(k) == call[k].tf # NoFile
\* No other Store call has drawn the id of the k-th.
OwnID(k) == \A j \in Objects \ {k} : HasID(j) => call[j].tf.ID # call[k].tf.ID

\* C22: an id is never reused for a different object: no two Store calls bind
\* the same id, so no insert overwrites an entry and an object keeps its entry
\* until its own expiry.
C22_IdNeverReused ==
    /\ \A j, k \in Objects : (j # k /\ HasID(j) /\ HasID(k)) => call[j].tf.ID # call[k].tf.ID
    /\ \A k \in Objects :
          (Returned(k) /\ now < call[k].tf.ExpiresAt)
              => /\ call[k].tf.ID \in DOMAIN files
                 /\ files[call[k].tf.ID] = call[k].tf

\* C26: with a worker pool configured for MaxWorkers workers, never more than
\* MaxWorkers download or transformation tasks of pipeline invocations run at
\* the same time.
C26_AtMostMaxWorkersRunning == Cardinality(Running) <= MaxWorkers

\* The operation of invocation o has called GenerateNonce.
HasNonce(o) == ops[o].nonceCalls > 0
\* The operation of invocation o has written its output.
HasOutput(o) == ops[o].pc = "done" /\ ops[o].wrote

\* C27 as stated: every transformation operation calls the nonce generator
\* exactly once and draws all its parameters from a single local generator
\* seeded from that nonce; the process-global generator is never used.
C27_OneNonceOneGenerator ==
    /\ \A o \in Ops :
          HasOutput(o)
              => /\ ops[o].nonceCalls = 1
                 /\ Len(ops[o].gens) = 1
                 /\ \A i \in 1..Len(ops[o].draws) : ops[o].draws[i].gen = 1
    /\ globalReads = 0

\* The operation of invocation o returned before it reached GenerateNonce: its
\* input failed the checks or, for a video, the temporary input was not written.
ReturnedEarly(o) ==
    /\ ops[o].pc = "done"
    /\ ops[o].status = 0
    /\ \/ ConvertCheck(ops[o].kind, ops[o].data) # NoError
       \/ \E how \in WriteOutcomes \ {"ok"} :
              /\ ops[o].kind = "video"
              /\ ops[o].err = <<"f", "a", "i", "l", "e", "d", " ", "t", "o", " ", "w", "r",
                                "i", "t", "e", " ", "t", "e", "m", "p", " ", "i", "n", "p",
                                "u", "t", ":", " ">>
                      \o WriteFileErr(TempInput(ops[o].kind, ops[o].outputPath), how)

\* C27: an operation calls the nonce generator at most once: exactly once when
\* it reaches GenerateNonce (its input passed the checks and, for a video, the
\* temporary input was written), not at all when it returns before that. Every
\* generator it creates is local and seeded from that nonce: one, and for a JPEG
\* or PNG image a second one with the same seed that serves the pixel edit only.
\* No parameter is drawn from the process-global generator, which is read only
\* by the fallback of GenerateNonce, once per operation whose secure read failed.
\* An invocation that Process answered 400 or 500 before it called the
\* converter has no operation and made no call.
C27_LocalGeneratorsFromOwnNonce ==
    /\ \A o \in Ops :
          LET op == ops[o]
          IN /\ op.nonceCalls <= 1
             /\ (op.pc \in {"lsb", "params", "run", "write", "defer"} \/ HasOutput(o))
                   => op.nonceCalls = 1
             /\ (op.pc = "done" /\ op.status = 0) => (op.nonceCalls = 0 <=> ReturnedEarly(o))
             /\ op.status # 0 => op.nonceCalls = 0
             /\ op.nonceCalls = 0 =>
                   (op.nonce = NoNonce /\ op.gens = <<>> /\ op.draws = <<>> /\ ~op.cryptoErr)
             /\ Len(op.gens) <= 2
             /\ Len(op.gens) = 2 => (op.kind = "image" /\ detectFormat(op.data) \in {"jpeg", "png"})
             /\ \A g \in 1..Len(op.gens) : op.gens[g] = SeedOf[op.nonce]
             /\ \A i \in 1..Len(op.draws) :
                   /\ op.draws[i].gen \in 1..Len(op.gens)
                   /\ op.draws[i].gen = 2 <=> op.draws[i].param = "lsb"
    /\ globalReads = Cardinality({o \in Ops : ops[o].cryptoErr})
\* An image operation has written its output with two generators of one seed
\* and eleven draws, and a video operation has returned 'failed to write temp
\* input' without a call of GenerateNonce.
C27_Witness ==
    \E o, p \in Ops :
        /\ HasOutput(o)
        /\ ops[o].nonceCalls = 1
        /\ Len(ops[o].gens) = 2
        /\ ops[o].gens[1] = ops[o].gens[2]
        /\ Len(ops[o].draws) = 11
        /\ ops[p].kind = "video"
        /\ validateMP4Integrity(ops[p].data) = NoError
        /\ ReturnedEarly(p)
        /\ ops[p].nonceCalls = 0

\* C28: the seed is a function of the nonce, and any two nonces, those with the
\* same timestamp and different random parts included, derive different seeds.
C28_DistinctNoncesDistinctSeeds ==
    \A o, p \in Ops :
        (HasNonce(o) /\ HasNonce(p))
            => (ops[o].nonce = ops[p].nonce <=> ops[o].gens[1] = ops[p].gens[1])

\* C29: GenerateNonce never fails: also when the secure random source returns
\* an error the caller gets a complete nonce: the timestamp read, a random part
\* of 32 hex characters, and the string timestamp_random.
C29_GenerateNonceNeverFails ==
    \A o \in Ops :
        HasNonce(o)
            => LET n == ops[o].nonce
               IN /\ n # NoNonce
                  /\ \E t \in 0..nano : n.Timestamp = UnixNano(t)
                  /\ Len(n.Random) = 32
                  /\ \A i \in 1..32 : \E j \in 1..16 : n.Random[i] = HexChars[j]
                  /\ \E b \in RandomReads : n.Random = EncodeToString(b)
                  /\ n.Nonce = FormatInt(n.Timestamp) \o <<"_">> \o n.Random
\* An operation whose secure read failed runs on a complete nonce whose random
\* part came from the process-global generator.
C29_Witness ==
    \E o \in Ops :
        /\ HasNonce(o)
        /\ ops[o].cryptoErr
        /\ globalReads > 0
        /\ Len(ops[o].nonce.Random) = 32
        /\ Len(ops[o].nonce.Nonce) = 52
        /\ ops[o].pc = "done"

\* C30: two operations on the same input never use the same nonce, and so
\* never have ffmpeg write the same thing: the input and the arguments an
\* operation hands to ffmpeg (its nonce as metadata, its nonce-derived
\* parameters) differ from those of every other operation.
C30_OutputsNeverIdentical ==
    \A o, p \in Ops :
        (o # p /\ HasOutput(o) /\ HasOutput(p) /\ ops[o].kind = ops[p].kind
               /\ ops[o].data = ops[p].data)
            => /\ ops[o].nonce.Nonce # ops[p].nonce.Nonce
               /\ ops[o].cmd # ops[p].cmd

\* The goroutine g took the step: its position changed.
Moved(g) ==
    CASE g[1] = "Store" -> call'[g[2]] # call[g[2]]
      [] g[1] = "scheduleDeletion" -> sched'[g[2]] # sched[g[2]]
      [] g[1] = "cleanupLoop" -> lk'.loop # lk.loop
      [] g[1] \in {"Get", "GetStats"} -> lk'.rd[g] # lk.rd[g]
      [] OTHER -> FALSE
\* The step removed a file from the disk.
RemovedAFile == \E p \in DOMAIN disk : p \notin DOMAIN disk'

\* C25: every step that changes the id map (Store's insert, the scheduled
\* deletion's delete, the sweep's deletes) is taken by the goroutine that holds
\* the store's lock exclusively, before and after the step; the sweep's scan and
\* every read by Get and GetStats are taken by a goroutine that holds the lock
\* exclusively or shared; and a step that removes a backing file is taken by a
\* goroutine that holds the lock in neither way.
C25_LockDiscipline ==
    [][/\ files' # files => mu.w # NoHolder /\ mu'.w = mu.w /\ Moved(mu.w)
       /\ (lk.loop = "scan" /\ lk'.loop # "scan") => mu.w = LoopG /\ mu'.w = LoopG
       /\ \A r \in Readers :
             (lk.rd[r].pc = "read" /\ lk'.rd[r].pc # "read") => r \in mu.r /\ r \in mu'.r
       /\ lastGet' # NoGet => <<"Get", 0>> \in mu.r /\ mu.w = NoHolder
       /\ RemovedAFile => /\ ~Moved(mu.w)
                          /\ \A r \in mu.r : ~Moved(r)]_vars
\* The sweep holds the lock after deleting an expired entry while the goroutine
\* it started has already removed that entry's file, a scheduled deletion that
\* is due waits for the lock, and a Store call has inserted its entry.
C25_Witness ==
    /\ mu.w = LoopG
    /\ lk.loop = "unlock"
    /\ lk.expired # <<>>
    /\ ~Exists(disk, lk.expired[1].Path)
    /\ \E k \in Objects : sched[k].pc = "sleep" /\ AfterOrEqual(now, sched[k].wakeAt)
    /\ files # <<>>

\* The URLs of the requests that carry no URL or one of no supported media kind.
NoMediaUrls == {<<>>, <<"h", "t", "t", "p", "s", ":", "/", "/", "h", "/", "a", ".", "t", "x",
                        "t">>}

\* C31: a request with an empty URL, or with a URL of no supported media kind,
\* is rejected at once with status 400: no download attempt was made, no
\* scratch file was created, no transformation ran and no Store call was made
\* for it.
C31_BadRequestRejectedAtOnce ==
    (proc.k >= 1 /\ proc.url \in NoMediaUrls) =>
        /\ Failed
        /\ proc.status = 400
        /\ proc.trace = <<"detect">>
        /\ dl = NoDownload
        /\ dlLog = <<>>
        /\ proc.made = {}
        /\ call[proc.k].pc = "idle"
        /\ proc.k \notin DOMAIN files
\* A request for a .txt URL was rejected after an earlier request had succeeded
\* and left its object in the store.
C31_Witness ==
    /\ proc.k = 2
    /\ proc.url = <<"h", "t", "t", "p", "s", ":", "/", "/", "h", "/", "a", ".", "t", "x", "t">>
    /\ Failed
    /\ Contains(proc.message, <<"C", "o", "u", "l", "d", " ", "n", "o", "t", " ", "d", "e",
                                "t", "e", "c", "t", " ", "m", "e", "d", "i", "a", " ", "t",
                                "y", "p", "e">>)
    /\ Returned(1)
    /\ 1 \in DOMAIN files

\* C32: on the shutdown signal the worker pool, the store's sweep and the HTTP
\* server are stopped in that order, each through its stop call; the process
\* has exited only after all three calls returned, and no pipeline invocation
\* was in flight when it exited.
C32_GracefulShutdown ==
    /\ \E n \in 0..3 :
           shutdown.calls = SubSeq(<<"workerPool.Stop", "tempStorage.Stop", "app.Shutdown">>, 1, n)
    /\ ~Alive =>
           /\ shutdown.pc \in {"returned", "exited"}
           /\ shutdown.poolStopped
           /\ stopClosed
           /\ InFlight = {}

\* C33: two calls of modifyImageLSB on the same image bytes and format that
\* both succeed return different byte sequences.
C33_LSBCallsDiffer ==
    (/\ calc.fn = "modifyImageLSB"
     /\ Len(calc.outs) = 2
     /\ calc.outs[1].err = NoError
     /\ calc.outs[2].err = NoError) =>
        calc.outs[1].data # calc.outs[2].data

\* A GetFile request has been answered.
Answered == calc.fn = "GetFile" /\ calc.pc = "done"
\* The parameter of a GET of the nova_url that Process builds from the k-th id.
NovaParam(k, e) == Params(NovaURL(BaseURL, IDString(k), e))

\* C34: the nova_url of a successful Process round-trips: GetFile on
\* '<id><extension>' recovers exactly the id (the part before the last dot) and
\* looks that id up; for an object whose Store call had returned, a request
\* answered before the object's expiry is answered with the stored artifact and
\* a request that looks the id up past the expiry is answered 404; so is a
\* request for an id that was not in the map.
C34_NovaURLRoundTrips ==
    Answered =>
        \A k \in 1..NeverIssued, e \in Extensions :
            calc.param = NovaParam(k, e) =>
                /\ calc.fileID = IDString(k)
                /\ calc.get.id = k
                /\ (calc.known = "issued" /\ now < call[k].tf.ExpiresAt) =>
                       /\ calc.resp.status = 200
                       /\ calc.resp.file = call[k].tf.Path
                       /\ calc.get.tf = call[k].tf
                /\ (calc.known = "issued" /\ calc.past) =>
                       /\ calc.resp.status = 404
                       /\ calc.resp.body = <<"F", "i", "l", "e", " ", "n", "o", "t", " ", "f",
                               "o", "u", "n", "d", " ", "o", "r", " ", "e", "x", "p", "i", "r",
                               "e", "d">>
                /\ calc.known = "absent" =>
                       /\ calc.resp.status = 404
                       /\ calc.resp.body = <<"F", "i", "l", "e", " ", "n", "o", "t", " ", "f",
                               "o", "u", "n", "d", " ", "o", "r", " ", "e", "x", "p", "i", "r",
                               "e", "d">>

\* A GET of the second object's nova_url, made after Process returned it and
\* answered before the object's expiry, is answered with the artifact.
C34_Witness ==
    /\ Answered
    /\ calc.param = NovaParam(2, <<".", "o", "p", "u", "s">>)
    /\ calc.fileID = IDString(2)
    /\ calc.known = "issued"
    /\ now < call[2].tf.ExpiresAt
    /\ calc.resp.status = 200
    /\ calc.resp.file = OutPath(2)

\* The attempts of the Download call that took a buffer from the pool.
Pooled(i) == dlLog[i].ev = "attempt" /\ dlLog[i].pool # <<>>
\* How often op occurs in a buffer's history.
Count(uses, op) == Cardinality({j \in 1..Len(uses) : uses[j] = op})

\* C35: an attempt that takes a buffer from the pool returns it exactly once,
\* when it returns, whichever return it takes (success, short read, read error);
\* it does nothing to the buffer after that, and the bytes it hands to the
\* caller are a copy, not the buffer.
C35_BufferReleasedOnce ==
    \A i \in 1..Len(dlLog) :
        /\ dlLog[i].site \in {"pooledIncomplete", "pooledRead"} => Pooled(i)
        /\ dlLog[i].site \in {"request", "do", "status", "directRead", "directIncomplete",
                               "unknownRead"} => ~Pooled(i)
        /\ Pooled(i) =>
               LET uses == dlLog[i].pool
               IN /\ uses[1] = "GetSized"
                  /\ Count(uses, "GetSized") = 1
                  /\ Count(uses, "PutSized") = 1
                  /\ uses[Len(uses)] = "PutSized"
                  /\ ~dlLog[i].alias
                  /\ (dlLog[i].err = NoError) => Count(uses, "read") = 1

\* One Download call whose attempts left the pooled read by a read error, by a
\* short read and by success.
C35_Witness ==
    /\ dl.pc = "done"
    /\ dl.err = NoError
    /\ Len(dlLog) = 5
    /\ Pooled(1) /\ dlLog[1].site = "pooledRead"
    /\ Pooled(3) /\ dlLog[3].site = "pooledIncomplete"
    /\ Pooled(5) /\ dlLog[5].site = "ok"

\* The files of an entry are on the disk.
OnDisk(tf) ==
    /\ Exists(disk, tf.Path)
    /\ tf.OriginalPath # NoPath => Exists(disk, tf.OriginalPath)

\* C36: Get never returns an object of which an eviction path has deleted a
\* file: a scheduled deletion that has reached its file removals and a sweep
\* goroutine hold only objects that are no longer in the map.
C36_GetNeverReturnsDeleted ==
    /\ (lastGet # NoGet /\ lastGet.err = NoErr) => OnDisk(lastGet.tf)
    /\ \A id \in DOMAIN files : OnDisk(files[id])
    /\ \A k \in Objects :
           sched[k].pc \in {"rmfile", "rmorig", "done"} => sched[k].id \notin DOMAIN files
    /\ \A g \in sweepers : \A i \in 1..Len(g.todo) : g.todo[i].ID \notin DOMAIN files

\* Get returns the second object at the instant of its expiry, its scheduled
\* deletion due, after the first object has been evicted.
C36_Witness ==
    /\ lastGet # NoGet
    /\ lastGet.err = NoErr
    /\ Returned(2)
    /\ lastGet.tf = call[2].tf
    /\ now = lastGet.tf.ExpiresAt
    /\ sched[2].pc = "sleep"
    /\ Returned(1)
    /\ Evicted(1)

\* No goroutine of the store is left: the sweep loop has returned, no sweep
\* goroutine is deleting files, and every scheduled deletion has finished.
NoGoroutine ==
    /\ ~loopOn
    /\ sweepers = {}
    /\ \A k \in Objects : sched[k].pc \in {"none", "done"}

\* C37: the store leaks no goroutine: once Stop() has been called, the sweep
\* loop, the scheduled deletions (each after its TTL) and the sweep's
\* file-deletion goroutines all terminate, and from some point on none is left.
C37_NoGoroutineLeft == stopClosed ~> []NoGoroutine

\* After Stop() the loop has returned and the scheduled deletions of both
\* objects have run to their end.
C37_Witness ==
    /\ stopClosed
    /\ ~panicked
    /\ NoGoroutine
    /\ Returned(1) /\ sched[1].pc = "done"
    /\ Returned(2) /\ sched[2].pc = "done"
    /\ "sched" \in rmMissed

\* C38: Stop() called again on a stopped store does not panic: the process
\* never dies of a Stop() call.
C38_SecondStopSafe == ~panicked

\* C39: whatever the nonce's timestamp and whatever the generator draws, the
\* delay of the audio transform is between 1 and 50 ms and the crop of the image
\* and video transforms is 1 or 2 pixels.
C39_DelayAndCropInRange ==
    /\ calc.fn = "delayMs" => calc.value \in 1..50
    /\ calc.fn = "cropPixels" => calc.value \in {1, 2}

\* The delay drawn, 50, with 9 added from the timestamp, is cut back to 50.
C39_Witness ==
    /\ calc.fn = "delayMs"
    /\ calc.draw = 49
    /\ DivMod64(calc.t, 10).r = 9
    /\ calc.value = 50

====
